---- MODULE Spec2Model ----
(***************************************************************************)
(* Verification model of kgatilin/aihive: the Task aggregate (both Task    *)
(* classes of the repository), the TaskService that loads, mutates, saves  *)
(* and publishes, the polling and scanning services, the message error     *)
(* handler and the in-memory broker.                                       *)
(***************************************************************************)
EXTENDS Integers, Sequences, FiniteSets, TLC

VARIABLES
    task,       \* the Task object under test (a record of its fields)
    now,        \* the value the next datetime.utcnow() is not below
    last,       \* the last domain operation called on `task`, its arguments, the task before it and whether it raised
    repo,       \* the repository's stored document of the service's task ("absent" when not stored)
    svc,        \* the TaskService call in flight: its position, its loaded Task, what is left to publish
    bus,        \* the events publish_event was called with and accepted, in order
    calls,      \* the calls the service made on its collaborators during the current call, in order
    script,     \* how far the lifecycle scenario create/assign/in_progress/review/complete has run
    rt,         \* a Task taken through to_dict and from_dict: the task, the dictionary, the task read back
    poll,       \* a TaskPollingService: its flags, the processings in flight, the messages of its latest tick
    scan,       \* a TaskScanningService: its flags and the messages of its latest scan
    eh,         \* a MessageErrorHandler: its retry counts, pending retries, dead letter queue
    broker,     \* an InMemoryBroker: its connection flag, subscriber tables, the callbacks invoked
    rmq,        \* a RabbitMQ consumer: the delivery in hand, the callbacks' outcomes, what was sent to the server
    mon,        \* an EventMonitor: its clock, workflows, alert callbacks and the alerts raised
    mqm,        \* a MessageQueueMonitor on an InMemoryMessageQueue: subscribers and deliveries
    conc,       \* two TaskService calls on one task_id, interleaved at their awaits
    inprog,     \* InMemoryBroker callbacks in progress under concurrent publishers
    prio,       \* a prioritize_tasks / get_next_task call: its input list and what it returned
    thr,        \* the threads of a periodic service: its loops, stop(), the processing thread, the lock
    dl,         \* the dead-letter store under concurrent retry, add and clear
    rd,         \* values returned by reads of the dead-letter store and the workflow index
    elog        \* the EventLogger's in-memory log

vars == <<task, now, last, repo, svc, bus, calls, script, rt, poll, scan, eh, broker,
          rmq, mon, mqm, conc, inprog, prio, thr, dl, rd, elog>>
taskVars == <<task, now, last>>
svcVars == <<repo, svc, bus, calls, script>>
rtVars == <<rt>>
pollVars == <<poll>>
scanVars == <<scan>>
ehVars == <<eh>>
brokerVars == <<broker>>
lateVars == <<thr, dl, rd, elog>>
moreVars == <<rmq, mon, mqm, conc, inprog, prio, lateVars>>

\* The variables of the other components, for the actions of the Task
\* aggregate and of the TaskService.
extVarsButMore == <<rtVars, pollVars, scanVars, ehVars, brokerVars>>
extVars == <<extVarsButMore, moreVars>>

----------------------------------------------------------------------------
(* Bounds of the model                                                     *)

MaxTime == 1
MaxEvents == 2
MaxArtifacts == 2
MaxBus == 3
MaxTicks == 2
MaxCalls == 2
MaxPublish == 2
MaxSubs == 3
MaxDeliveries == 3
MaxClock == 3
MaxObjects == 3
MaxMemoryEntries == 2
MaxLogged == 6

----------------------------------------------------------------------------
(* Value objects                                                           *)

CREATED == "created"
ASSIGNED == "assigned"
IN_PROGRESS == "in_progress"
BLOCKED == "blocked"
REVIEW == "review"
COMPLETED == "completed"
CANCELED == "canceled"

TaskStatus == {CREATED, ASSIGNED, IN_PROGRESS, BLOCKED, REVIEW, COMPLETED, CANCELED}

None == "None"
NoneDate == 0 - 1

LOW == "low"
MEDIUM == "medium"
HIGH == "high"
CRITICAL == "critical"
TaskPriority == {LOW, MEDIUM, HIGH, CRITICAL}
Assignees == {"agent-1"}
ArtifactArgs == {<<>>, <<"a1">>, <<"a2">>}

\* The two Task classes of the repository.
EntityTask == "domain/entities/task.py"
DomainTask == "domain/task.py"

----------------------------------------------------------------------------
(* Domain events (task_id is the same in all of them and left out)         *)

TaskCreatedEvent == [type |-> "TaskCreated"]

TaskAssignedEvent(assignee, previous_assignee) ==
    [type |-> "TaskAssigned", assignee |-> assignee, previous_assignee |-> previous_assignee]

TaskStatusChangedEvent(new_status, previous_status) ==
    [type |-> "TaskStatusChanged", new_status |-> new_status, previous_status |-> previous_status]

TaskCompletedEvent(artifact_ids) ==
    [type |-> "TaskCompleted", artifact_ids |-> artifact_ids]

TaskCanceledEvent == [type |-> "TaskCanceled"]

\* A result of a method call: the object after it and whether it raised.
Ok(t) == [raised |-> FALSE, task |-> t]
Raise(t) == [raised |-> TRUE, task |-> t]

----------------------------------------------------------------------------
(* Task of domain/entities/task.py                                         *)

\* list.extend on self.artifact_ids. A TaskCompletedEvent built from a
\* non-empty self.artifact_ids holds that very list (artifact_ids or []), so
\* it sees the extension too.
_extend_artifacts(t, ids) ==
    LET new == t.artifact_ids \o ids
        fix(e) == IF e.type = "TaskCompleted" /\ e.artifact_ids # <<>>
                  THEN [e EXCEPT !.artifact_ids = new] ELSE e
    IN [t EXCEPT !.artifact_ids = new,
                 !.pending_events = [i \in 1..Len(t.pending_events) |-> fix(t.pending_events[i])]]

\* Mutant: the table also lets a created task go straight to review.
_is_valid_status_transition_Mut(t, new_status) ==
    \/ t.status = CREATED /\ new_status \in {ASSIGNED, CANCELED, REVIEW}
    \/ t.status = ASSIGNED /\ new_status \in {IN_PROGRESS, BLOCKED, CANCELED}
    \/ t.status = IN_PROGRESS /\ new_status \in {BLOCKED, REVIEW, CANCELED}
    \/ t.status = BLOCKED /\ new_status \in {IN_PROGRESS, CANCELED}
    \/ t.status = REVIEW /\ new_status \in {IN_PROGRESS, COMPLETED, CANCELED}

_is_valid_status_transition(t, new_status) ==
    LET valid_transitions ==
          [s \in TaskStatus |->
             CASE s = CREATED     -> {ASSIGNED, CANCELED}
               [] s = ASSIGNED    -> {IN_PROGRESS, BLOCKED, CANCELED}
               [] s = IN_PROGRESS -> {BLOCKED, REVIEW, CANCELED}
               [] s = BLOCKED     -> {IN_PROGRESS, CANCELED}
               [] s = REVIEW      -> {IN_PROGRESS, COMPLETED, CANCELED}
               [] s = COMPLETED   -> {}
               [] s = CANCELED    -> {}]
    IN new_status \in valid_transitions[t.status]

\* Mutant: the status change leaves updated_at as it was at creation.
_change_status_Mut(t, new_status, utcnow) ==
    [t EXCEPT !.status = new_status,
              !.updated_at = t.created_at,
              !.pending_events = Append(@, TaskStatusChangedEvent(new_status, t.status))]

_change_status(t, new_status, utcnow) ==
    [t EXCEPT !.status = new_status,
              !.updated_at = utcnow,
              !.pending_events = Append(@, TaskStatusChangedEvent(new_status, t.status))]

assign_to(t, assignee, utcnow) ==
    LET t1 == [t EXCEPT !.assignee = assignee]
        t2 == IF t1.status = CREATED THEN _change_status(t1, ASSIGNED, utcnow) ELSE t1
    IN Ok([t2 EXCEPT !.updated_at = utcnow,
                     !.pending_events = Append(@, TaskAssignedEvent(assignee, t.assignee))])

change_status(t, new_status, utcnow) ==
    IF ~_is_valid_status_transition(t, new_status)
    THEN Raise(t)
    ELSE Ok(_change_status(t, new_status, utcnow))

complete(t, artifact_ids, utcnow) ==
    IF t.status = CANCELED
    THEN Raise(t)
    ELSE LET t1 == [t EXCEPT !.status = COMPLETED, !.updated_at = utcnow]
             t2 == IF artifact_ids # <<>> THEN _extend_artifacts(t1, artifact_ids) ELSE t1
         IN Ok([t2 EXCEPT !.pending_events = Append(@, TaskCompletedEvent(t2.artifact_ids))])

\* Mutant: the guard against canceling a completed task is missing.
cancel_Mut(t, utcnow) ==
    Ok([t EXCEPT !.status = CANCELED,
                 !.updated_at = utcnow,
                 !.pending_events = Append(@, TaskCanceledEvent)])

cancel(t, utcnow) ==
    IF t.status = COMPLETED
    THEN Raise(t)
    ELSE Ok([t EXCEPT !.status = CANCELED,
                      !.updated_at = utcnow,
                      !.pending_events = Append(@, TaskCanceledEvent)])

start_progress(t, utcnow) ==
    IF t.status \notin {ASSIGNED, BLOCKED}
    THEN Raise(t)
    ELSE Ok(_change_status(t, IN_PROGRESS, utcnow))

block(t, utcnow) ==
    IF t.status \notin {ASSIGNED, IN_PROGRESS}
    THEN Raise(t)
    ELSE Ok(_change_status(t, BLOCKED, utcnow))

\* Mutant: the artifact list is replaced by the submitted ids, not extended.
ready_for_review_Mut(t, artifact_ids, utcnow) ==
    IF t.status # IN_PROGRESS
    THEN Raise(t)
    ELSE Ok(_change_status([t EXCEPT !.artifact_ids = artifact_ids], REVIEW, utcnow))

ready_for_review(t, artifact_ids, utcnow) ==
    IF t.status # IN_PROGRESS
    THEN Raise(t)
    ELSE Ok(_change_status(_extend_artifacts(t, artifact_ids), REVIEW, utcnow))

get_pending_events(t) == t.pending_events

clear_events(t) == [t EXCEPT !.pending_events = <<>>]

----------------------------------------------------------------------------
(* Task of domain/task.py (events of core/domain_events/task_events.py).   *)
(* This class has no artifact_ids attribute; the field stays empty.        *)

Core_TaskAssignedEvent(previous_assignee, new_assignee) ==
    [type |-> "TaskAssigned", previous_assignee |-> previous_assignee, new_assignee |-> new_assignee]

Core_TaskStatusChangedEvent(previous_status, new_status, related_artifact_ids) ==
    [type |-> "TaskStatusChanged", previous_status |-> previous_status,
     new_status |-> new_status, related_artifact_ids |-> related_artifact_ids]

Core_TaskCompletedEvent(deliverable_ids) ==
    [type |-> "TaskCompleted", deliverable_ids |-> deliverable_ids]

Core_TaskCanceledEvent == [type |-> "TaskCanceled"]

DomainTask_is_valid_status_transition(t, new_status) ==
    LET allowed_transitions ==
          [s \in TaskStatus |->
             CASE s = CREATED     -> {ASSIGNED, CANCELED}
               [] s = ASSIGNED    -> {IN_PROGRESS, BLOCKED, CANCELED}
               [] s = IN_PROGRESS -> {REVIEW, BLOCKED, CANCELED}
               [] s = BLOCKED     -> {IN_PROGRESS, CANCELED}
               [] s = REVIEW      -> {IN_PROGRESS, COMPLETED, CANCELED}
               [] s = COMPLETED   -> {}
               [] s = CANCELED    -> {}]
    IN new_status \in allowed_transitions[t.status]

DomainTask_change_status(t, new_status, related_artifact_ids, utcnow) ==
    IF new_status = t.status
    THEN Ok(t)
    ELSE IF ~DomainTask_is_valid_status_transition(t, new_status)
    THEN Raise(t)
    ELSE Ok([t EXCEPT !.status = new_status,
                      !.updated_at = utcnow,
                      !.pending_events =
                          Append(@, Core_TaskStatusChangedEvent(t.status, new_status, related_artifact_ids))])

DomainTask_assign_to(t, new_assignee, utcnow) ==
    LET t1 == [t EXCEPT !.assignee = new_assignee,
                        !.updated_at = utcnow,
                        !.pending_events = Append(@, Core_TaskAssignedEvent(t.assignee, new_assignee))]
    IN IF t1.status = CREATED
       THEN DomainTask_change_status(t1, ASSIGNED, <<>>, utcnow)
       ELSE Ok(t1)

DomainTask_complete(t, deliverable_ids, utcnow) ==
    IF t.status = COMPLETED
    THEN Ok(t)
    ELSE Ok([t EXCEPT !.status = COMPLETED,
                      !.updated_at = utcnow,
                      !.pending_events =
                          @ \o << Core_TaskStatusChangedEvent(t.status, COMPLETED, <<>>),
                                  Core_TaskCompletedEvent(deliverable_ids) >>])

DomainTask_cancel(t, utcnow) ==
    IF t.status = CANCELED
    THEN Ok(t)
    ELSE IF t.status = COMPLETED
    THEN Raise(t)
    ELSE Ok([t EXCEPT !.status = CANCELED,
                      !.updated_at = utcnow,
                      !.pending_events =
                          @ \o << Core_TaskStatusChangedEvent(t.status, CANCELED, <<>>),
                                  Core_TaskCanceledEvent >>])

DomainTask_start_progress(t, utcnow) ==
    IF t.status \notin {ASSIGNED, BLOCKED}
    THEN Raise(t)
    ELSE DomainTask_change_status(t, IN_PROGRESS, <<>>, utcnow)

DomainTask_block(t, utcnow) ==
    IF t.status \in {COMPLETED, CANCELED}
    THEN Raise(t)
    ELSE DomainTask_change_status(t, BLOCKED, <<>>, utcnow)

DomainTask_ready_for_review(t, artifact_ids, utcnow) ==
    IF t.status # IN_PROGRESS
    THEN Raise(t)
    ELSE DomainTask_change_status(t, REVIEW, artifact_ids, utcnow)

----------------------------------------------------------------------------
(* The Task object and the operations called on it                         *)

\* Task.__init__ of domain/entities/task.py: a new task (no task_id given)
\* records TaskCreatedEvent, a reconstructed one does not.
Task__init__(status, assignee, artifact_ids, created_at, updated_at, is_new) ==
    [impl |-> EntityTask, status |-> status, assignee |-> assignee,
     artifact_ids |-> artifact_ids,
     pending_events |-> IF is_new THEN <<TaskCreatedEvent>> ELSE <<>>,
     created_at |-> created_at, updated_at |-> updated_at,
     task_id |-> "task-1", title |-> "T1", description |-> "D1",
     priority |-> MEDIUM, created_by |-> "system", due_date |-> NoneDate,
     requirements_ids |-> <<>>, parent_task_id |-> None, tags |-> <<>>]

\* Values of the date fields of a task dictionary: an ISO-8601 string (what
\* datetime.isoformat() returns), a string that is no ISO date, a native
\* datetime, or None.
IsoString(instant) == [kind |-> "str", v |-> instant]
NotIsoString == [kind |-> "str", v |-> NoneDate]
NativeDate(instant) == [kind |-> "datetime", v |-> instant]
NoneValue == [kind |-> "None", v |-> NoneDate]

isoformat(instant) == IsoString(instant)

\* Mutant: the artifact list is left out of the dictionary (stored empty).
to_dict_Mut(t) ==
    [task_id |-> t.task_id, title |-> t.title, description |-> t.description,
     priority |-> t.priority, status |-> t.status, created_by |-> t.created_by,
     assignee |-> t.assignee,
     due_date |-> IF t.due_date # NoneDate THEN isoformat(t.due_date) ELSE NoneValue,
     requirements_ids |-> t.requirements_ids, parent_task_id |-> t.parent_task_id,
     tags |-> t.tags, artifact_ids |-> <<>>,
     created_at |-> isoformat(t.created_at), updated_at |-> isoformat(t.updated_at)]

\* Task.to_dict: every field but the pending events; the enums by value, the
\* instants as ISO strings.
to_dict(t) ==
    [task_id |-> t.task_id, title |-> t.title, description |-> t.description,
     priority |-> t.priority, status |-> t.status, created_by |-> t.created_by,
     assignee |-> t.assignee,
     due_date |-> IF t.due_date # NoneDate THEN isoformat(t.due_date) ELSE NoneValue,
     requirements_ids |-> t.requirements_ids, parent_task_id |-> t.parent_task_id,
     tags |-> t.tags, artifact_ids |-> t.artifact_ids,
     created_at |-> isoformat(t.created_at), updated_at |-> isoformat(t.updated_at)]

\* The date conversion of from_dict: a string goes through
\* datetime.fromisoformat, and becomes None when that raises ValueError; a
\* native datetime or None is kept.
_convert_date(value) ==
    IF value.kind = "str"
    THEN (IF value.v # NoneDate THEN NativeDate(value.v) ELSE NoneValue)
    ELSE value

\* from_dict converts the dictionary it is given in place.
_convert(data) ==
    [data EXCEPT !.due_date = _convert_date(@),
                 !.created_at = _convert_date(@),
                 !.updated_at = _convert_date(@)]

\* TaskPriority(value) and TaskStatus(value) raise ValueError on a string
\* that is no member.
from_dict_raises(data) ==
    data.priority \notin TaskPriority \/ data.status \notin TaskStatus

\* Task.from_dict: cls(**data) on the converted dictionary (the task_id is
\* given, so no TaskCreatedEvent is recorded; created_at falls back to
\* utcnow() and updated_at to created_at when None), then the pending
\* events are cleared.
from_dict(data, utcnow) ==
    LET d == _convert(data)
        created_at == IF d.created_at.kind = "None" THEN utcnow ELSE d.created_at.v
        updated_at == IF d.updated_at.kind = "None" THEN created_at ELSE d.updated_at.v
        t == [Task__init__(d.status, d.assignee, d.artifact_ids, created_at, updated_at, FALSE)
                 EXCEPT !.task_id = d.task_id, !.title = d.title,
                        !.description = d.description, !.priority = d.priority,
                        !.created_by = d.created_by, !.due_date = d.due_date.v,
                        !.requirements_ids = d.requirements_ids,
                        !.parent_task_id = d.parent_task_id, !.tags = d.tags]
    IN clear_events(t)

\* Task.__init__ of domain/task.py: records no event.
DomainTask__init__(status, assignee) ==
    [impl |-> DomainTask, status |-> status, assignee |-> assignee,
     artifact_ids |-> <<>>, pending_events |-> <<>>,
     created_at |-> 0, updated_at |-> 0]

\* datetime.utcnow(): never below an earlier reading, not always above it.
UtcNow == {now} \cup (IF now < MaxTime THEN {now + 1} ELSE {})

NoArg == "-"

\* One call of a domain operation on `task`: the object is left as the
\* method left it, also when the method raised.
Call(op, arg, res, utcnow) ==
    /\ Len(res.task.pending_events) <= MaxEvents
    /\ Len(res.task.artifact_ids) <= MaxArtifacts
    /\ task' = res.task
    /\ now' = utcnow
    /\ last' = [op |-> op, arg |-> arg, raised |-> res.raised, pre |-> task]
    /\ UNCHANGED svcVars
    /\ UNCHANGED extVars

AssignTo ==
    /\ task.impl = EntityTask
    /\ \E a \in Assignees, u \in UtcNow : Call("assign_to", a, assign_to(task, a, u), u)

ChangeStatus ==
    /\ task.impl = EntityTask
    /\ \E s \in TaskStatus, u \in UtcNow : Call("change_status", s, change_status(task, s, u), u)

Complete ==
    /\ task.impl = EntityTask
    /\ \E ids \in ArtifactArgs, u \in UtcNow : Call("complete", ids, complete(task, ids, u), u)

Cancel ==
    /\ task.impl = EntityTask
    /\ \E u \in UtcNow : Call("cancel", NoArg, cancel(task, u), u)

StartProgress ==
    /\ task.impl = EntityTask
    /\ \E u \in UtcNow : Call("start_progress", NoArg, start_progress(task, u), u)

Block ==
    /\ task.impl = EntityTask
    /\ \E u \in UtcNow : Call("block", NoArg, block(task, u), u)

ReadyForReview ==
    /\ task.impl = EntityTask
    /\ \E ids \in ArtifactArgs, u \in UtcNow :
          Call("ready_for_review", ids, ready_for_review(task, ids, u), u)

ClearEvents ==
    /\ task.pending_events # <<>>
    /\ task' = clear_events(task)
    /\ last' = [op |-> "clear_events", arg |-> NoArg, raised |-> FALSE, pre |-> task]
    /\ UNCHANGED <<now>>
    /\ UNCHANGED svcVars
    /\ UNCHANGED extVars

DomainAssignTo ==
    /\ task.impl = DomainTask
    /\ \E a \in Assignees, u \in UtcNow : Call("assign_to", a, DomainTask_assign_to(task, a, u), u)

DomainChangeStatus ==
    /\ task.impl = DomainTask
    /\ \E s \in TaskStatus, ids \in ArtifactArgs, u \in UtcNow :
          Call("change_status", s, DomainTask_change_status(task, s, ids, u), u)

DomainComplete ==
    /\ task.impl = DomainTask
    /\ \E ids \in ArtifactArgs, u \in UtcNow : Call("complete", ids, DomainTask_complete(task, ids, u), u)

DomainCancel ==
    /\ task.impl = DomainTask
    /\ \E u \in UtcNow : Call("cancel", NoArg, DomainTask_cancel(task, u), u)

DomainStartProgress ==
    /\ task.impl = DomainTask
    /\ \E u \in UtcNow : Call("start_progress", NoArg, DomainTask_start_progress(task, u), u)

DomainBlock ==
    /\ task.impl = DomainTask
    /\ \E u \in UtcNow : Call("block", NoArg, DomainTask_block(task, u), u)

DomainReadyForReview ==
    /\ task.impl = DomainTask
    /\ \E ids \in ArtifactArgs, u \in UtcNow :
          Call("ready_for_review", ids, DomainTask_ready_for_review(task, ids, u), u)

----------------------------------------------------------------------------------------------------------------------------------------
(* TaskService of application/services/task_service.py, over the MongoDB   *)
(* repository and a message broker. The service handles one task; every    *)
(* await (get_by_id, save, publish_event) is a step of its own, and the     *)
(* repository and the broker may raise at each of them.                    *)

NoTask == Task__init__(CREATED, None, <<>>, 0, 0, FALSE)
NoEvent == [type |-> "-"]

MutatingOps == {"assign_task", "update_task_status", "complete_task", "cancel_task"}

\* An entry of the log of what the service did during the current call.
Did(step, event) == [step |-> step, event |-> event]

SvcIdle ==
    [pc |-> "idle", op |-> NoArg, arg |-> NoArg,
     found |-> FALSE,        \* get_by_id returned a task
     pre |-> NoTask,         \* the task as loaded
     task |-> NoTask,        \* the Task object the call works on
     mutated |-> NoTask,     \* that object as the domain operation left it
     to_publish |-> <<>>,    \* the list task.get_pending_events() returned
     i |-> 0,                \* index of the event whose publish_event is awaited
     error |-> NoArg,        \* what raised, when the call failed
     repo0 |-> repo,         \* the stored document when the call started
     bus0 |-> Len(bus)]      \* the number of published events when the call started

\* MongoDBTaskRepository.save: upsert of task.to_dict().
save(t) == [exists |-> TRUE, doc |-> to_dict(t)]

\* The domain operation a service method calls on the loaded task.
\* update_task_status converts the string first: TaskStatus(new_status)
\* raises ValueError on a string that is no status.
DomainCall(op, arg, t, utcnow) ==
    CASE op = "assign_task"        -> assign_to(t, arg, utcnow)
      [] op = "update_task_status" -> IF arg \notin TaskStatus THEN Raise(t)
                                      ELSE change_status(t, arg, utcnow)
      [] op = "complete_task"      -> complete(t, arg, utcnow)
      [] op = "cancel_task"        -> cancel(t, utcnow)

\* Mutant: an error of the domain operation is logged and the call carries
\* on to repository.save.
AfterGet_Mut(s, doc, utcnow) ==
    IF ~doc.exists
    THEN [s EXCEPT !.pc = "failed", !.error = "not_found"]
    ELSE LET t == from_dict(doc.doc, utcnow)
             res == DomainCall(s.op, s.arg, t, utcnow)
         IN [s EXCEPT !.pc = "save",
                      !.found = TRUE, !.pre = t, !.task = res.task, !.mutated = res.task]

\* The service after get_by_id returned `doc` (exists = FALSE: None): not
\* found raises; else the domain operation is called, and if it does not
\* raise, repository.save is awaited.
AfterGet(s, doc, utcnow) ==
    IF ~doc.exists
    THEN [s EXCEPT !.pc = "failed", !.error = "not_found"]
    ELSE LET t == from_dict(doc.doc, utcnow)
             res == DomainCall(s.op, s.arg, t, utcnow)
         IN IF res.raised
            THEN [s EXCEPT !.pc = "failed", !.error = "domain",
                           !.found = TRUE, !.pre = t, !.task = res.task]
            ELSE [s EXCEPT !.pc = "save",
                           !.found = TRUE, !.pre = t, !.task = res.task, !.mutated = res.task]

\* Mutant: the events are published whether or not repository.save raised.
AfterSave_Mut(s, raised) ==
    LET events == get_pending_events(s.task)
    IN IF events = <<>>
       THEN [s EXCEPT !.pc = "returned", !.task = clear_events(s.task)]
       ELSE [s EXCEPT !.pc = "publish", !.to_publish = events, !.i = 1]

\* The service after repository.save returned or raised: on a raise the
\* except clause logs and re-raises; else the pending events are read and
\* the first publish_event is awaited, or, with none pending, the events are
\* cleared and the task returned.
AfterSave(s, raised) ==
    IF raised
    THEN [s EXCEPT !.pc = "failed", !.error = "save"]
    ELSE LET events == get_pending_events(s.task)
         IN IF events = <<>>
            THEN [s EXCEPT !.pc = "returned", !.task = clear_events(s.task)]
            ELSE [s EXCEPT !.pc = "publish", !.to_publish = events, !.i = 1]

\* The service after publish_event of event i returned or raised.
AfterPublish(s, raised) ==
    IF raised
    THEN [s EXCEPT !.pc = "failed", !.error = "publish"]
    ELSE IF s.i < Len(s.to_publish)
    THEN [s EXCEPT !.i = s.i + 1]
    ELSE [s EXCEPT !.pc = "returned", !.task = clear_events(s.task)]

\* The lifecycle scenario: create, assign, in_progress, review, complete.
Scenario ==
    << [op |-> "create_task", arg |-> NoArg],
       [op |-> "assign_task", arg |-> "agent-1"],
       [op |-> "update_task_status", arg |-> IN_PROGRESS],
       [op |-> "update_task_status", arg |-> REVIEW],
       [op |-> "complete_task", arg |-> <<"a1">>] >>

OffScript == 0 - 1

\* The call is the next one of the lifecycle scenario, which has run without
\* a failure so far.
NextInScenario(op, arg) ==
    /\ script # OffScript
    /\ script < Len(Scenario)
    /\ Scenario[script + 1] = [op |-> op, arg |-> arg]

\* Calls outside the lifecycle scenario are explored while what they can
\* publish and store stays within the bounds.
WithinBounds(op, arg) ==
    \/ NextInScenario(op, arg)
    \/ /\ Len(bus) + 2 <= MaxBus
       /\ op = "complete_task" => Len(repo.doc.artifact_ids) + Len(arg) <= MaxArtifacts

\* create_task: Task(...) is constructed (recording TaskCreatedEvent) and
\* repository.save awaited. A created task gets a fresh uuid; the model
\* follows the first task created.
CreateTask ==
    /\ svc.pc = "idle"
    /\ ~repo.exists
    /\ WithinBounds("create_task", NoArg)
    /\ \E u \in UtcNow :
          /\ now' = u
          /\ LET t == Task__init__(CREATED, None, <<>>, u, u, TRUE)
             IN svc' = [SvcIdle EXCEPT !.pc = "save", !.op = "create_task",
                                       !.task = t, !.mutated = t]
    /\ calls' = << Did("mutate", NoEvent), Did("save", NoEvent) >>
    /\ UNCHANGED <<task, last, repo, bus, script>>
    /\ UNCHANGED extVars

\* assign_task, update_task_status, complete_task, cancel_task: get_by_id is awaited.
StartCall(op, arg) ==
    /\ svc.pc = "idle"
    /\ WithinBounds(op, arg)
    /\ svc' = [SvcIdle EXCEPT !.pc = "get", !.op = op, !.arg = arg]
    /\ calls' = << Did("get_by_id", NoEvent) >>
    /\ UNCHANGED <<task, now, last, repo, bus, script>>
    /\ UNCHANGED extVars

AssignTask == \E a \in Assignees : StartCall("assign_task", a)

UpdateTaskStatus == \E st \in TaskStatus \cup {"no_such_status"} : StartCall("update_task_status", st)

CompleteTask == \E ids \in {<<>>, <<"a1">>} : StartCall("complete_task", ids)

CancelTask == StartCall("cancel_task", NoArg)

GetReturns ==
    /\ svc.pc = "get"
    /\ \E u \in UtcNow :
          /\ now' = u
          /\ svc' = AfterGet(svc, repo, u)
          /\ calls' = calls \o (IF svc'.found THEN << Did("mutate", NoEvent) >> ELSE <<>>)
                            \o (IF svc'.pc = "save" THEN << Did("save", NoEvent) >> ELSE <<>>)
    /\ UNCHANGED <<task, last, repo, bus, script>>
    /\ UNCHANGED extVars

GetRaises ==
    /\ svc.pc = "get"
    /\ svc' = [svc EXCEPT !.pc = "failed", !.error = "get"]
    /\ UNCHANGED <<task, now, last, repo, bus, calls, script>>
    /\ UNCHANGED extVars

SaveReturns ==
    /\ svc.pc = "save"
    /\ repo' = save(svc.task)
    /\ svc' = AfterSave(svc, FALSE)
    /\ calls' = calls \o (IF svc'.pc = "publish"
                          THEN << Did("publish_event", svc'.to_publish[1]) >>
                          ELSE << Did("clear_events", NoEvent) >>)
    /\ UNCHANGED <<task, now, last, bus, script>>
    /\ UNCHANGED extVars

SaveRaises ==
    /\ svc.pc = "save"
    /\ svc' = AfterSave(svc, TRUE)
    /\ calls' = calls \o (IF svc'.pc = "publish"
                          THEN << Did("publish_event", svc'.to_publish[1]) >>
                          ELSE <<>>)
    /\ UNCHANGED <<task, now, last, repo, bus, script>>
    /\ UNCHANGED extVars

PublishReturns ==
    /\ svc.pc = "publish"
    /\ bus' = Append(bus, svc.to_publish[svc.i])
    /\ svc' = AfterPublish(svc, FALSE)
    /\ calls' = calls \o (IF svc'.pc = "publish"
                          THEN << Did("publish_event", svc'.to_publish[svc'.i]) >>
                          ELSE << Did("clear_events", NoEvent) >>)
    /\ UNCHANGED <<task, now, last, repo, script>>
    /\ UNCHANGED extVars

PublishRaises ==
    /\ svc.pc = "publish"
    /\ svc' = AfterPublish(svc, TRUE)
    /\ UNCHANGED <<task, now, last, repo, bus, calls, script>>
    /\ UNCHANGED extVars

\* The call is over: the caller has the task or the error, and may call again.
Return ==
    /\ svc.pc \in {"returned", "failed"}
    /\ svc' = [SvcIdle EXCEPT !.repo0 = repo, !.bus0 = Len(bus)]
    /\ script' = IF svc.pc = "returned" /\ NextInScenario(svc.op, svc.arg)
                 THEN script + 1
                 ELSE OffScript
    /\ UNCHANGED <<task, now, last, repo, bus, calls>>
    /\ UNCHANGED extVars

----------------------------------------------------------------------------
(* A Task taken through to_dict and from_dict                              *)

RtIdle == [pc |-> "idle", t |-> NoTask, d |-> to_dict(NoTask), back |-> NoTask]

\* A polling service as constructed: not running, nothing in flight.
NoTick == [done |-> FALSE, polled |-> FALSE, raised |-> FALSE, needs_clarification |-> FALSE]

PollIdle ==
    [impl |-> "application", running |-> FALSE, ticks |-> 0,
     currently_processing_task |-> None, out |-> <<>>, tick |-> NoTick,
     tasks |-> [id \in {"task-1", "task-2"} |-> [status |-> COMPLETED, priority |-> LOW]],
     pc |-> "sleep", next |-> None, in_flight |-> {}, processing_tasks |-> {},
     processing_thread |-> None, stopping |-> FALSE, processed |-> <<>>]

\* A scanning service as constructed.
ScanIdle ==
    [running |-> FALSE, ticks |-> 0, scan_id |-> None, out |-> <<>>,
     tick |-> [done |-> FALSE, raised |-> FALSE, passes |-> <<>>],
     received |-> [event_type |-> None, new_status |-> None]]

\* An ErrorHandler as create_error_handler builds it (max_retries = 3), with
\* the one message dictionary it is handed: no retry scheduled, the dead
\* letter queue empty, the message without _retry_count (read as 0).
NoError == [cls |-> None, msg |-> None]

NoHandled ==
    [called |-> FALSE, error |-> NoError, pre_count |-> 0, post_count |-> 0,
     appended |-> <<>>, scheduled |-> {}]

EhIdle ==
    [max_retries |-> 3, wrapper |-> FALSE, retry_count |-> 0,
     threads |-> {}, tracked |-> 0, next_tid |-> 1,
     dead_letter_queue |-> <<>>, invocations |-> <<>>, superseded |-> {},
     deliveries |-> 0, calls |-> 0, admin |-> 0, last |-> NoHandled]

\* An InMemoryBroker after __init__: both subscriber tables empty (a type
\* without a list reads as the empty list) and not connected.
BrokerEventTypes == {"test.event", "other.event"}
BrokerCommandTypes == {"test.command"}
Callbacks == {"cb1", "cb2"}

BrokerTables(b) ==
    [event_subscribers |-> b.event_subscribers,
     command_subscribers |-> b.command_subscribers]

NoTables ==
    [event_subscribers |-> [t \in BrokerEventTypes |-> <<>>],
     command_subscribers |-> [t \in BrokerCommandTypes |-> <<>>]]

NoBrokerOp ==
    [op |-> None, connected |-> FALSE, raised |-> FALSE, invoked |-> <<>>,
     before |-> NoTables]

BrokerIdle ==
    [is_connected |-> FALSE,
     event_subscribers |-> NoTables.event_subscribers,
     command_subscribers |-> NoTables.command_subscribers,
     published |-> <<>>, delivered |-> <<>>, last |-> NoBrokerOp]

\* A RabbitMQ consumer with no subscription, nothing on the server's queues
\* and nothing handled yet.
RmqIdle ==
    [impl |-> "message_queue", callbacks |-> <<>>, queue |-> <<>>,
     published |-> 0, handled |-> <<>>]
\* An EventMonitor as constructed: its monitoring thread started, no
\* workflow, no alert callback. The clock counts detector periods (the
\* loop's sleep); the threshold is one period.
Cids == {"wf-1"}

NoWorkflow == [status |-> "absent", last_update_time |-> 0, events |-> 0, commands |-> 0]

MonIdle ==
    [alert_threshold_seconds |-> 1, running |-> TRUE, clock |-> 0, next_check |-> 0,
     active_workflows |-> [cid \in Cids |-> NoWorkflow],
     alert_callbacks |-> <<>>, pc |-> "sleep", stalled_workflows |-> <<>>,
     checks |-> <<>>, alerts |-> <<>>]
MqTypes == {"TASK_ASSIGNED", "TASK_COMPLETED", "UPDATE_TASK_STATUS"}
MqCallbacks == {"handler", "failing_handler"}
NoPublish == [kind |-> "-", type |-> "-", monitor_raised |-> FALSE, registered |-> FALSE,
              subscribers |-> <<>>, invoked |-> <<>>, raised |-> FALSE]
MqmIdle == [event_subscribers |-> [t \in MqTypes |-> <<>>],
            command_subscribers |-> [t \in MqTypes |-> <<>>],
            published |-> 0, last |-> NoPublish]
ConcCalls == {"call-1", "call-2"}
ConcCallIdle == [pc |-> "idle", op |-> NoArg, arg |-> NoArg, task |-> NoTask, loaded |-> NoArg]
ConcIdle == [repo |-> [exists |-> FALSE, doc |-> to_dict(NoTask)], persisted |-> <<>>,
             call |-> [c \in ConcCalls |-> ConcCallIdle]]
Publishers == {"publisher-1", "publisher-2"}
NoPublishCall == [pc |-> "idle", kind |-> "-", tasks |-> <<>>]
InprogIdle == [subscribers |-> [kind \in {"event", "command"} |-> <<>>],
               pub |-> [p \in Publishers |-> NoPublishCall], published |-> 0]
PrioIdle == [pc |-> "idle", ids |-> <<>>, tasks |-> <<>>, prioritized |-> <<>>, next |-> None]

\* The components added to the model later, as constructed.
NoLoop == [pc |-> "awake", stopped |-> FALSE, late |-> FALSE, ticked |-> FALSE]
NoStop == [pc |-> "idle", target |-> 0, found_alive |-> FALSE]
NoStopReturn == [returned |-> FALSE, found_alive |-> FALSE, alive |-> FALSE, work_done |-> FALSE]
ThrIdle == [kind |-> "-", running |-> FALSE, starts |-> 0, loops |-> <<>>,
            lock |-> "free", stop |-> NoStop, last_stop |-> NoStopReturn,
            proc |-> "none", arrived |-> 0, handled |-> 0, arrived_locked |-> FALSE]
NoRetry == [index |-> None, valid |-> FALSE, retried |-> None, invoked |-> 0,
            callback_returned |-> FALSE, done |-> FALSE, result |-> FALSE, removed |-> None]
DlIdle == [messages |-> <<>>, added |-> 0, retries |-> 0, pc |-> "idle", last |-> NoRetry]
NoReturned == [op |-> None, ids |-> <<>>]
RdIdle == [store |-> "-", objs |-> <<>>, stored |-> <<>>, ret |-> NoReturned,
           stored_changed |-> FALSE, returned_changed |-> FALSE]
ElogIdle == [max_memory_entries |-> 0, log_entries |-> <<>>, logged |-> 0]
LateIdle ==
    /\ thr = ThrIdle
    /\ dl = DlIdle
    /\ rd = RdIdle
    /\ elog = ElogIdle

MoreIdle ==
    /\ rmq = RmqIdle
    /\ mon = MonIdle
    /\ mqm = MqmIdle
    /\ conc = ConcIdle
    /\ inprog = InprogIdle
    /\ prio = PrioIdle
    /\ LateIdle

ExtInit ==
    /\ MoreIdle
    /\ rt = RtIdle
    /\ poll = PollIdle
    /\ scan = ScanIdle
    /\ eh = EhIdle
    /\ broker = BrokerIdle

\* The tasks the round trip is tried on: constructed new or reconstructed,
\* in every status, with and without assignee, due date, tags and
\* artifacts, and as assign_to leaves them (further events pending).
RoundTripTasks ==
    LET built ==
          { [Task__init__(s, a, ids, c, u, is_new)
                EXCEPT !.priority = p, !.due_date = due, !.tags = tags,
                       !.requirements_ids = tags, !.parent_task_id = a] :
              s \in TaskStatus, a \in {None, "agent-1"}, ids \in {<<>>, <<"a1">>},
              c \in {0}, u \in 0..MaxTime, is_new \in BOOLEAN,
              p \in {MEDIUM, CRITICAL}, due \in {NoneDate, MaxTime},
              tags \in {<<>>, <<"x", "y">>} }
    IN built \cup { assign_to(t, "agent-1", MaxTime).task : t \in {b \in built : b.status = CREATED} }

\* d = t.to_dict()
ToDict ==
    /\ rt.pc = "task"
    /\ rt' = [rt EXCEPT !.pc = "dict", !.d = to_dict(rt.t)]
    /\ UNCHANGED <<taskVars, svcVars, pollVars, scanVars, ehVars, brokerVars, moreVars>>

\* back = Task.from_dict(d); the dictionary is converted in place.
FromDict ==
    /\ rt.pc = "dict"
    /\ ~from_dict_raises(rt.d)
    /\ rt' = [rt EXCEPT !.pc = "back", !.d = _convert(rt.d), !.back = from_dict(rt.d, now)]
    /\ UNCHANGED <<taskVars, svcVars, pollVars, scanVars, ehVars, brokerVars, moreVars>>

SvcInit ==
    /\ repo = [exists |-> FALSE, doc |-> to_dict(NoTask)]
    /\ bus = <<>>
    /\ svc = SvcIdle
    /\ calls = <<>>
    /\ script = 0

\* No Task object is under test.
TaskIdle ==
    /\ now = 0
    /\ task = NoTask
    /\ last = [op |-> "__init__", arg |-> NoArg, raised |-> FALSE, pre |-> task]

ServiceInit ==
    /\ TaskIdle
    /\ SvcInit
    /\ ExtInit

RoundTripInit ==
    /\ MoreIdle
    /\ TaskIdle
    /\ SvcInit
    /\ \E t \in RoundTripTasks : rt = [RtIdle EXCEPT !.pc = "task", !.t = t]
    /\ poll = PollIdle
    /\ scan = ScanIdle
    /\ eh = EhIdle
    /\ broker = BrokerIdle

RoundTripNext ==
    \/ ToDict
    \/ FromDict

RoundTripSpec == RoundTripInit /\ [][RoundTripNext]_vars

----------------------------------------------------------------------------
(* Messages of infrastructure/message_queue/domain_events.py               *)

EventType ==
    {"USER_REQUEST_SUBMITTED", "CLARIFICATION_PROVIDED", "HUMAN_VALIDATION_PROVIDED",
     "TASK_CREATED", "TASK_STATUS_CHANGED", "TASK_ASSIGNED", "TASK_UNASSIGNED",
     "TASK_COMMENT_ADDED", "CLARIFICATION_REQUESTED", "PRODUCT_REQUIREMENT_CREATED",
     "PRODUCT_REQUIREMENT_UPDATED", "HUMAN_VALIDATION_REQUESTED",
     "TASK_SCAN_INITIATED", "TASK_SCAN_COMPLETED"}

CommandType ==
    {"CREATE_TASK", "UPDATE_TASK_STATUS", "ASSIGN_TASK", "UNASSIGN_TASK",
     "ADD_TASK_COMMENT", "CREATE_PRODUCT_REQUIREMENT", "UPDATE_PRODUCT_REQUIREMENT",
     "REQUEST_CLARIFICATION", "LINK_REQUIREMENT_TO_TASK", "SEND_MESSAGE",
     "SEND_NOTIFICATION"}

\* TaskStatus of domain_events.py (the workflow states, not the Task
\* aggregate's).
TaskStatus_NEW == "new"
REQUEST_VALIDATION == "request_validation"
CLARIFICATION_NEEDED == "clarification_needed"
PRD_DEVELOPMENT == "prd_development"
PRD_VALIDATION == "prd_validation"

\* The payload keys the services fill in; None where a message has no such
\* key.
NoPayload ==
    [task_id |-> None, new_status |-> None, agent_id |-> None, prd_id |-> None,
     scan_id |-> None, status |-> None, notification_type |-> None,
     clarification_questions |-> None, questions |-> None]

\* create_event followed by serialize_event, as handed to publish_event.
create_event(event_type, payload, correlation_id) ==
    [kind |-> "event", type |-> event_type, payload |-> payload,
     correlation_id |-> correlation_id]

\* create_command followed by serialize_command, as handed to
\* publish_command.
create_command(command_type, payload, correlation_id) ==
    [kind |-> "command", type |-> command_type, payload |-> payload,
     correlation_id |-> correlation_id]

----------------------------------------------------------------------------
(* TaskPollingService of product_definition/application (threads) and of   *)
(* product_definition/agents (asyncio)                                     *)

\* The tasks find_tasks_by_assignee returns, in the repository's order.
PollTaskOrder == <<"task-1", "task-2">>
PollTaskIds == {PollTaskOrder[i] : i \in 1..Len(PollTaskOrder)}

\* uuid4() of the simulated query response and of the PRD.
SimulatedIds == <<"sim-1", "sim-2", "sim-3">>
PrdId == "prd-1"

\* _simulate_assigned_tasks_response: created_at is time.time() less i+1
\* hours, counted here in hours before the call.
_simulate_assigned_tasks_response(count) ==
    LET statuses == <<REQUEST_VALIDATION, PRD_DEVELOPMENT>>
        priorities == <<"low", "medium", "high", "urgent">>
    IN [i \in 1..count |->
          [task_id |-> SimulatedIds[i],
           status |-> statuses[((i - 1) % 2) + 1],
           priority |-> priorities[((i - 1) % 4) + 1],
           created_at |-> 0 - i]]

\* sorted(tasks, key=(priority_order, created_at))[0]; sorted is stable.
_find_highest_priority_task(tasks) ==
    LET priority_order(p) ==
          CASE p = "urgent" -> 0 [] p = "high" -> 1 [] p = "medium" -> 2
            [] p = "low" -> 3 [] OTHER -> 2
        less(a, b) ==
          \/ priority_order(a.priority) < priority_order(b.priority)
          \/ /\ priority_order(a.priority) = priority_order(b.priority)
             /\ a.created_at < b.created_at
        first == CHOOSE i \in 1..Len(tasks) :
                    \A j \in 1..Len(tasks) :
                        j # i => \/ less(tasks[i], tasks[j])
                                 \/ ~less(tasks[j], tasks[i]) /\ i < j
    IN tasks[first]

\* _simulate_product_manager_processing: the verdict of the simulated
\* agent, which asks its three questions when it needs clarification.
_simulate_product_manager_processing(needs_clarification) ==
    [needs_clarification |-> needs_clarification,
     clarification_questions |-> IF needs_clarification
                                 THEN <<"audience", "performance", "regulatory">>
                                 ELSE <<>>,
     error |-> FALSE]

_handle_clarification_request_Mut(t, result) ==
    << create_command("UPDATE_TASK_STATUS",
           [NoPayload EXCEPT !.task_id = t.task_id, !.new_status = CLARIFICATION_NEEDED], None),
       create_command("ADD_TASK_COMMENT",
           [NoPayload EXCEPT !.task_id = t.task_id,
                             !.clarification_questions = result.clarification_questions], None),
       create_event("CLARIFICATION_REQUESTED",
           [NoPayload EXCEPT !.task_id = t.task_id,
                             !.questions = result.clarification_questions], None) >>
_handle_clarification_request(t, result) ==
    << create_command("ADD_TASK_COMMENT",
           [NoPayload EXCEPT !.task_id = t.task_id,
                             !.clarification_questions = result.clarification_questions], None),
       create_command("UPDATE_TASK_STATUS",
           [NoPayload EXCEPT !.task_id = t.task_id, !.new_status = CLARIFICATION_NEEDED], None),
       create_event("CLARIFICATION_REQUESTED",
           [NoPayload EXCEPT !.task_id = t.task_id,
                             !.questions = result.clarification_questions], None) >>

_handle_successful_processing(t) ==
    << create_event("PRODUCT_REQUIREMENT_CREATED",
           [NoPayload EXCEPT !.task_id = t.task_id, !.prd_id = PrdId], None),
       create_command("LINK_REQUIREMENT_TO_TASK",
           [NoPayload EXCEPT !.task_id = t.task_id, !.prd_id = PrdId], None),
       create_command("UPDATE_TASK_STATUS",
           [NoPayload EXCEPT !.task_id = t.task_id, !.new_status = PRD_VALIDATION], None),
       create_event("HUMAN_VALIDATION_REQUESTED",
           [NoPayload EXCEPT !.task_id = t.task_id, !.prd_id = PrdId], None) >>

\* What _process_task_thread publishes for a task and an agent verdict.
_process_task_thread(t, needs_clarification) ==
    (IF t.status = REQUEST_VALIDATION
     THEN << create_command("UPDATE_TASK_STATUS",
                 [NoPayload EXCEPT !.task_id = t.task_id, !.new_status = PRD_DEVELOPMENT], None) >>
     ELSE <<>>)
    \o (IF needs_clarification
        THEN _handle_clarification_request(t, _simulate_product_manager_processing(TRUE))
        ELSE _handle_successful_processing(t))

\* _poll_for_tasks. CommandType.QUERY_TASKS is looked up first; an enum
\* without that member raises AttributeError there, before anything is
\* published. The branch after the query is the processing the thread
\* would do for the task chosen.
_poll_for_tasks_Mut(needs_clarification) ==
    LET assigned_tasks == _simulate_assigned_tasks_response(3)
        t == _find_highest_priority_task(assigned_tasks)
    IN [raised |-> FALSE,
        out |-> << create_command("QUERY_TASKS", NoPayload, None) >>
                \o _process_task_thread(t, needs_clarification),
        processed |-> t.task_id]
_poll_for_tasks(needs_clarification) ==
    IF "QUERY_TASKS" \notin CommandType
    THEN [raised |-> TRUE, out |-> <<>>, processed |-> None]
    ELSE LET assigned_tasks == _simulate_assigned_tasks_response(3)
             t == _find_highest_priority_task(assigned_tasks)
         IN [raised |-> FALSE,
             out |-> << create_command("QUERY_TASKS", NoPayload, None) >>
                     \o _process_task_thread(t, needs_clarification),
             processed |-> t.task_id]

\* start(): a second start of a running service only logs a warning.
PollStart ==
    /\ ~poll.running
    /\ poll' = [poll EXCEPT !.running = TRUE, !.pc = "sleep", !.next = None]
    /\ UNCHANGED <<taskVars, svcVars, rtVars, scanVars, ehVars, brokerVars, moreVars>>

\* stop(). The asyncio service cancels its polling task and every
\* processing task and clears _processing_tasks; the threaded service joins
\* its threads, the processing thread while holding processing_lock.
PollStop ==
    /\ poll.running
    /\ poll' = IF poll.impl = "agents"
               THEN [poll EXCEPT !.running = FALSE, !.pc = "sleep", !.next = None,
                                 !.in_flight = {}, !.processing_tasks = {}]
               ELSE [poll EXCEPT !.running = FALSE,
                                 !.stopping = poll.processing_thread # None]
    /\ UNCHANGED <<taskVars, svcVars, rtVars, scanVars, ehVars, brokerVars, moreVars>>

\* One pass of _polling_loop of the threaded service, under
\* processing_lock: the poll is skipped while a task is being processed;
\* an exception of _poll_for_tasks is logged.
PollingLoop ==
    /\ poll.impl = "application"
    /\ poll.running
    /\ ~poll.stopping
    /\ poll.ticks < MaxTicks
    /\ \E needs_clarification \in BOOLEAN :
         LET polled == poll.currently_processing_task = None
             r == _poll_for_tasks(needs_clarification)
         IN poll' = [poll EXCEPT
                       !.ticks = @ + 1,
                       !.currently_processing_task =
                           IF polled /\ ~r.raised THEN r.processed ELSE @,
                       !.processing_thread =
                           IF polled /\ ~r.raised THEN r.processed ELSE @,
                       !.out = IF polled THEN r.out ELSE <<>>,
                       !.tick = [done |-> TRUE, polled |-> polled,
                                 raised |-> polled /\ r.raised,
                                 needs_clarification |-> needs_clarification]]
    /\ UNCHANGED <<taskVars, svcVars, rtVars, scanVars, ehVars, brokerVars, moreVars>>

\* prioritize_tasks: sort by priority weight plus status weight,
\* descending; list.sort is stable.
RECURSIVE SortByScore(_, _)
SortByScore(ids, score) ==
    IF ids = <<>> THEN <<>>
    ELSE LET i == CHOOSE i \in 1..Len(ids) :
                    \A j \in 1..Len(ids) :
                        \/ score[ids[j]] < score[ids[i]]
                        \/ score[ids[j]] = score[ids[i]] /\ i <= j
         IN <<ids[i]>> \o SortByScore(SubSeq(ids, 1, i - 1) \o SubSeq(ids, i + 1, Len(ids)), score)

prioritize_tasks(ids, tasks) ==
    LET priority_weights(p) ==
          CASE p = CRITICAL -> 100 [] p = HIGH -> 75 [] p = MEDIUM -> 50
            [] p = LOW -> 25 [] OTHER -> 0
        status_weights(s) ==
          CASE s = BLOCKED -> 20 [] s = REVIEW -> 10 [] s = ASSIGNED -> 0 [] OTHER -> 0
        score == [id \in PollTaskIds |->
                    priority_weights(tasks[id].priority) + status_weights(tasks[id].status)]
    IN SortByScore(ids, score)

\* poll_tasks: the tasks of the assignee in a processable status.
poll_tasks(tasks) ==
    SelectSeq(PollTaskOrder, LAMBDA id : tasks[id].status \in {ASSIGNED, REVIEW, BLOCKED})

get_next_task(tasks) ==
    LET prioritized_tasks == prioritize_tasks(poll_tasks(tasks), tasks)
    IN IF prioritized_tasks = <<>> THEN None ELSE prioritized_tasks[1]

\* _polling_loop of the asyncio service up to the first await that
\* completes: get_next_task. A failing find_tasks_by_assignee is logged.
GetNextTask ==
    /\ poll.impl = "agents"
    /\ poll.running
    /\ poll.pc = "sleep"
    /\ poll.ticks < MaxTicks
    /\ \E find_raises \in BOOLEAN :
         LET next_task == IF find_raises THEN None ELSE get_next_task(poll.tasks)
         IN poll' = [poll EXCEPT !.ticks = @ + 1,
                                 !.next = next_task,
                                 !.pc = IF next_task = None THEN "sleep" ELSE "mark"]
    /\ UNCHANGED <<taskVars, svcVars, rtVars, scanVars, ehVars, brokerVars, moreVars>>

\* mark_task_as_in_progress, then asyncio.create_task(_process_task(...))
\* registered in _processing_tasks. update_task_status raises on a status
\* change the table forbids, or when the repository or the broker fails;
\* the loop logs it and sleeps.
MarkTaskAsInProgress ==
    /\ poll.impl = "agents"
    /\ poll.running
    /\ poll.pc = "mark"
    /\ \E update_raises \in BOOLEAN :
         IF update_raises \/ ~_is_valid_status_transition(poll.tasks[poll.next], IN_PROGRESS)
         THEN poll' = [poll EXCEPT !.pc = "sleep", !.next = None]
         ELSE poll' = [poll EXCEPT !.pc = "sleep", !.next = None,
                                   !.tasks[poll.next].status = IN_PROGRESS,
                                   !.in_flight = @ \cup {poll.next},
                                   !.processing_tasks = @ \cup {poll.next}]
    /\ UNCHANGED <<taskVars, svcVars, rtVars, scanVars, ehVars, brokerVars, moreVars>>

\* _process_task: agent.process_task returns the processed task;
\* mark_task_as_completed removes it from _processing_tasks.
ProcessTaskReturns ==
    /\ poll.impl = "agents"
    /\ \E id \in poll.in_flight, s \in {REVIEW, BLOCKED, COMPLETED} :
         poll' = [poll EXCEPT !.in_flight = @ \ {id},
                              !.processing_tasks = @ \ {id},
                              !.tasks[id].status = s,
                              !.processed = Append(@, [task_id |-> id, agent |-> "returns", published |-> <<>>,
                                                       commented |-> FALSE, out |-> <<>>,
                                                       status_changed |-> s # IN_PROGRESS])]
    /\ UNCHANGED <<taskVars, svcVars, rtVars, scanVars, ehVars, brokerVars, moreVars>>

\* The methods of the TaskService the asyncio service is built with
\* (task_management/application/services/task_service.py).
TaskServiceMethods ==
    {"create_task", "assign_task", "update_task_status", "complete_task", "get_task",
     "find_tasks_by_status", "find_tasks_by_assignee", "find_tasks_by_criteria",
     "cancel_task"}

\* _process_task: agent.process_task raises. The handler calls
\* self._task_service.add_comment; on a TaskService without that method
\* the handler itself raises there, before the task is removed from
\* _processing_tasks.
ProcessTaskRaises ==
    /\ poll.impl = "agents"
    /\ \E id \in poll.in_flight :
         LET commented == "add_comment" \in TaskServiceMethods
         IN poll' = [poll EXCEPT
               !.in_flight = @ \ {id},
               !.processing_tasks = IF commented THEN @ \ {id} ELSE @,
               !.processed = Append(@, [task_id |-> id, agent |-> "raises", published |-> <<>>,
                                        commented |-> commented, out |-> <<>>,
                                        status_changed |-> FALSE])]
    /\ UNCHANGED <<taskVars, svcVars, rtVars, scanVars, ehVars, brokerVars, moreVars>>

\* _delegate_to_product_manager: the agent's verdict; an exception of the
\* agent is logged and turned into the result {"error": ...}, which has no
\* needs_clarification key.
_delegate_to_product_manager(agent) ==
    IF agent = "raises"
    THEN [needs_clarification |-> FALSE, clarification_questions |-> <<>>, error |-> TRUE]
    ELSE _simulate_product_manager_processing(agent = "clarification")

\* _process_task_async(task), called with a task of the pool while the slot
\* is free: the slot is taken and the processing thread started.
ProcessTaskAsync ==
    /\ poll.impl = "application"
    /\ poll.currently_processing_task = None
    /\ poll.processing_thread = None
    /\ ~poll.stopping
    /\ Len(poll.processed) < MaxTicks
    /\ \E i \in 1..3 :
         LET t == _simulate_assigned_tasks_response(3)[i]
         IN poll' = [poll EXCEPT !.currently_processing_task = t.task_id,
                                 !.processing_thread = t.task_id]
    /\ UNCHANGED <<taskVars, svcVars, rtVars, scanVars, ehVars, brokerVars, moreVars>>

\* _process_task_thread(task) to its end: the messages of the verdict are
\* published, an exception is logged, and the finally block, which needs
\* processing_lock, frees the slot.
ProcessTaskThread ==
    /\ poll.impl = "application"
    /\ poll.processing_thread # None
    /\ ~poll.stopping
    /\ \E i \in 1..3, agent \in {"clarification", "document", "raises"} :
         LET t == _simulate_assigned_tasks_response(3)[i]
             processing_result == _delegate_to_product_manager(agent)
             out == _process_task_thread(t, processing_result.needs_clarification)
             after == IF processing_result.needs_clarification
                      THEN _handle_clarification_request(t, processing_result)
                      ELSE _handle_successful_processing(t)
         IN /\ t.task_id = poll.processing_thread
            /\ poll' = [poll EXCEPT
                  !.currently_processing_task = None,
                  !.processing_thread = None,
                  !.out = out,
                  !.processed = Append(@,
                      [task_id |-> t.task_id, agent |-> agent, published |-> out,
                       commented |-> \E k \in DOMAIN after : after[k].type = "ADD_TASK_COMMENT",
                       out |-> after,
                       status_changed |-> \E k \in DOMAIN after :
                                              after[k].type = "UPDATE_TASK_STATUS"])]
    /\ UNCHANGED <<taskVars, svcVars, rtVars, scanVars, ehVars, brokerVars, moreVars>>

\* stop() gives up its join on the processing thread and releases
\* processing_lock.
StopReturns ==
    /\ poll.stopping
    /\ poll' = [poll EXCEPT !.stopping = FALSE]
    /\ UNCHANGED <<taskVars, svcVars, rtVars, scanVars, ehVars, brokerVars, moreVars>>

PollingInit ==
    /\ MoreIdle
    /\ TaskIdle
    /\ SvcInit
    /\ rt = RtIdle
    /\ scan = ScanIdle
    /\ eh = EhIdle
    /\ broker = BrokerIdle
    /\ \/ poll = PollIdle
       \/ \E tasks \in [PollTaskIds -> [status : {ASSIGNED, REVIEW, BLOCKED, COMPLETED},
                                        priority : {LOW, HIGH}]] :
            poll = [PollIdle EXCEPT !.impl = "agents", !.tasks = tasks]

PollingNext ==
    \/ PollStart
    \/ PollStop
    \/ PollingLoop
    \/ GetNextTask
    \/ MarkTaskAsInProgress
    \/ ProcessTaskReturns
    \/ ProcessTaskRaises
    \/ ProcessTaskAsync
    \/ ProcessTaskThread
    \/ StopReturns

PollingSpec == PollingInit /\ [][PollingNext]_vars

\* The threads of the threaded service keep running: the polling loop
\* wakes and stop() returns when its join times out; the processing
\* thread, which waits for processing_lock in its finally block while a
\* stop() holds it, gets the lock once it has been released.
PollingFairSpec ==
    /\ PollingSpec
    /\ WF_vars(PollingLoop)
    /\ SF_vars(ProcessTaskThread)
    /\ WF_vars(StopReturns)

----------------------------------------------------------------------------
(* TaskScanningService of orchestration/application                        *)

\* str(uuid.uuid4()) of the n-th scan.
ScanId(n) == CASE n = 1 -> "scan-1" [] n = 2 -> "scan-2" [] n = 3 -> "scan-3" [] OTHER -> "scan-4"

\* _simulate_task_query_response: count tasks in the status asked for.
_simulate_task_query_response(status, count) ==
    [i \in 1..count |->
        [task_id |-> SimulatedIds[i], status |-> status, priority |-> "medium",
         notification_sent |-> FALSE, validation_notification_sent |-> FALSE]]

RECURSIVE Flatten(_)
Flatten(seqs) == IF seqs = <<>> THEN <<>> ELSE Head(seqs) \o Flatten(Tail(seqs))

\* _scan_new_tasks. CommandType.QUERY_TASKS is looked up first; an enum
\* without that member raises AttributeError there.
_scan_new_tasks(scan_id) ==
    IF "QUERY_TASKS" \notin CommandType
    THEN [raised |-> TRUE, out |-> <<>>]
    ELSE LET tasks == _simulate_task_query_response(TaskStatus_NEW, 3)
         IN [raised |-> FALSE,
             out |-> << create_command("QUERY_TASKS",
                            [NoPayload EXCEPT !.status = TaskStatus_NEW], scan_id) >>
                     \o Flatten([i \in 1..Len(tasks) |->
                          << create_command("UPDATE_TASK_STATUS",
                                 [NoPayload EXCEPT !.task_id = tasks[i].task_id,
                                                   !.new_status = REQUEST_VALIDATION], scan_id),
                             create_command("ASSIGN_TASK",
                                 [NoPayload EXCEPT !.task_id = tasks[i].task_id,
                                                   !.agent_id = "product_manager_pool"], scan_id) >>])]

_scan_clarification_needed_tasks(scan_id) ==
    IF "QUERY_TASKS" \notin CommandType
    THEN [raised |-> TRUE, out |-> <<>>]
    ELSE LET tasks == _simulate_task_query_response(CLARIFICATION_NEEDED, 3)
         IN [raised |-> FALSE,
             out |-> << create_command("QUERY_TASKS",
                            [NoPayload EXCEPT !.status = CLARIFICATION_NEEDED], scan_id) >>
                     \o Flatten([i \in 1..Len(tasks) |->
                          IF ~tasks[i].notification_sent
                          THEN << create_command("SEND_NOTIFICATION",
                                      [NoPayload EXCEPT !.task_id = tasks[i].task_id,
                                          !.notification_type = "CLARIFICATION_REQUESTED"], scan_id) >>
                          ELSE <<>>])]

_scan_prd_validation_tasks(scan_id) ==
    IF "QUERY_TASKS" \notin CommandType
    THEN [raised |-> TRUE, out |-> <<>>]
    ELSE LET tasks == _simulate_task_query_response(PRD_VALIDATION, 3)
         IN [raised |-> FALSE,
             out |-> << create_command("QUERY_TASKS",
                            [NoPayload EXCEPT !.status = PRD_VALIDATION], scan_id) >>
                     \o Flatten([i \in 1..Len(tasks) |->
                          IF ~tasks[i].validation_notification_sent
                          THEN << create_command("SEND_NOTIFICATION",
                                      [NoPayload EXCEPT !.task_id = tasks[i].task_id,
                                          !.notification_type = "PRD_VALIDATION_REQUESTED"], scan_id) >>
                          ELSE <<>>])]

\* _perform_scan: the messages published and whether an exception left it.
\* The scan initiated event is created without a correlation id; a pass
\* that raises ends the scan, none of the passes catches anything.
_perform_scan(scan_id) ==
    LET initiated == << create_event("TASK_SCAN_INITIATED",
                            [NoPayload EXCEPT !.scan_id = scan_id], None) >>
        completed == << create_event("TASK_SCAN_COMPLETED",
                            [NoPayload EXCEPT !.scan_id = scan_id], scan_id) >>
        new == _scan_new_tasks(scan_id)
        clarification == _scan_clarification_needed_tasks(scan_id)
        validation == _scan_prd_validation_tasks(scan_id)
    IN IF new.raised
       THEN [raised |-> TRUE, passes |-> <<"new">>, out |-> initiated \o new.out]
       ELSE IF clarification.raised
       THEN [raised |-> TRUE, passes |-> <<"new", "clarification">>,
             out |-> initiated \o new.out \o clarification.out]
       ELSE IF validation.raised
       THEN [raised |-> TRUE, passes |-> <<"new", "clarification", "validation">>,
             out |-> initiated \o new.out \o clarification.out \o validation.out]
       ELSE [raised |-> FALSE, passes |-> <<"new", "clarification", "validation">>,
             out |-> initiated \o new.out \o clarification.out \o validation.out \o completed]

\* start(): a second start of a running service only logs a warning.
ScanStart ==
    /\ ~scan.running
    /\ scan' = [scan EXCEPT !.running = TRUE]
    /\ UNCHANGED <<taskVars, svcVars, rtVars, pollVars, ehVars, brokerVars, moreVars>>

\* stop()
ScanStop ==
    /\ scan.running
    /\ scan' = [scan EXCEPT !.running = FALSE]
    /\ UNCHANGED <<taskVars, svcVars, rtVars, pollVars, ehVars, brokerVars, moreVars>>

\* One pass of _scanning_loop: _perform_scan, its exception logged.
ScanningLoop ==
    /\ scan.running
    /\ scan.ticks < MaxTicks
    /\ LET scan_id == ScanId(scan.ticks + 1)
           r == _perform_scan(scan_id)
       IN scan' = [scan EXCEPT !.ticks = @ + 1, !.scan_id = scan_id, !.out = r.out,
                               !.tick = [done |-> TRUE, raised |-> r.raised,
                                         passes |-> r.passes]]
    /\ UNCHANGED <<taskVars, svcVars, rtVars, pollVars, ehVars, brokerVars, moreVars>>

\* _handle_task_events, subscribed at construction to TASK_CREATED and
\* TASK_STATUS_CHANGED: it logs and leaves the service as it is; `received`
\* records the event it was called with.
HandleTaskEvents ==
    /\ \E event_type \in {"TASK_CREATED", "TASK_STATUS_CHANGED"},
          new_status \in {REQUEST_VALIDATION, CLARIFICATION_NEEDED, PRD_VALIDATION} :
         scan' = [scan EXCEPT !.received =
                     [event_type |-> event_type,
                      new_status |-> IF event_type = "TASK_STATUS_CHANGED"
                                     THEN new_status ELSE None]]
    /\ UNCHANGED <<taskVars, svcVars, rtVars, pollVars, ehVars, brokerVars, moreVars>>

\* The scanner and the poller of product_definition/application, as
\* workflow_integration constructs them on one message queue.
ScanningInit ==
    /\ MoreIdle
    /\ TaskIdle
    /\ SvcInit
    /\ rt = RtIdle
    /\ poll = PollIdle
    /\ scan = ScanIdle
    /\ eh = EhIdle
    /\ broker = BrokerIdle

ScanningNext ==
    \/ ScanStart
    \/ ScanStop
    \/ ScanningLoop
    \/ HandleTaskEvents
    \/ PollStart
    \/ PollStop
    \/ PollingLoop

ScanningSpec == ScanningInit /\ [][ScanningNext]_vars

----------------------------------------------------------------------------
(* ErrorHandler of infrastructure/message_queue/error_handler.py           *)

\* The classes an exception is an instance of.
Mro(cls) ==
    CASE cls = "JSONDecodeError"    -> {"JSONDecodeError", "ValueError", "Exception"}
      [] cls = "UnicodeDecodeError" -> {"UnicodeDecodeError", "ValueError", "Exception"}
      [] cls = "ConnectionError"    -> {"ConnectionError", "OSError", "Exception"}
      [] cls = "TimeoutError"       -> {"TimeoutError", "OSError", "Exception"}
      [] OTHER                      -> {cls, "Exception"}

\* The errors handle_error is called with from outside; str(error) is msg.
Errors ==
    {[cls |-> c, msg |-> "boom"] :
        c \in {"ValueError", "TypeError", "KeyError", "AttributeError", "JSONDecodeError",
               "UnicodeDecodeError", "ConnectionError", "RuntimeError"}}

\* What an invocation of the callback ends with: it returns, or fails
\* with one of these.
Returned == [cls |-> "ok", msg |-> "ok"]
CallbackErrors ==
    {[cls |-> "ConnectionError", msg |-> "refused"],
     [cls |-> "TimeoutError", msg |-> "timed out"]}

\* Mutant: a failed lookup is taken for a transient error.
_is_retryable_error_Mut(error) ==
    error.cls \notin {"ValueError", "TypeError", "JSONDecodeError"}

\* _is_retryable_error(error): isinstance against the non-retryable
\* classes first, then the name indicators, then the default.
_is_retryable_error(error) ==
    LET non_retryable_errors ==
          {"ValueError", "TypeError", "KeyError", "AttributeError", "JSONDecodeError"}
        retryable_error_names == {"ConnectionError", "TimeoutError"}
    IN IF Mro(error.cls) \cap non_retryable_errors # {} THEN FALSE
       ELSE IF error.cls \in retryable_error_names THEN TRUE
       ELSE TRUE

\* DeadLetterQueue.add_message with the MessageProcessingError that wraps
\* `error`.
add_message(h, error) ==
    [h EXCEPT !.dead_letter_queue =
        Append(@, [message |-> "m1",
                   error_message |-> <<"Error processing message: ", error.msg>>,
                   original_error |-> error.msg])]

\* Mutant: one retry more before the message is dead-lettered.
handle_error_Mut(h, error) ==
    IF ~_is_retryable_error(error) THEN add_message(h, error)
    ELSE IF h.retry_count > h.max_retries THEN add_message(h, error)
    ELSE [h EXCEPT !.retry_count = @ + 1,
                   !.threads = @ \cup {h.next_tid},
                   !.tracked = h.next_tid,
                   !.next_tid = @ + 1]

\* handle_error(message_data, error, retry_callback, message_id). The
\* tracked thread of the message, when alive, is only dropped from
\* retry_threads; the new thread takes its place there and sleeps.
handle_error(h, error) ==
    IF ~_is_retryable_error(error) THEN add_message(h, error)
    ELSE IF h.retry_count >= h.max_retries THEN add_message(h, error)
    ELSE [h EXCEPT !.retry_count = @ + 1,
                   !.threads = @ \cup {h.next_tid},
                   !.tracked = h.next_tid,
                   !.next_tid = @ + 1]

\* handle_error, with the record of what the call did.
Handled(h, error) ==
    LET g == handle_error(h, error)
    IN [g EXCEPT !.last = [called |-> TRUE, error |-> error,
                           pre_count |-> h.retry_count, post_count |-> g.retry_count,
                           appended |-> SubSeq(g.dead_letter_queue,
                                               Len(h.dead_letter_queue) + 1,
                                               Len(g.dead_letter_queue)),
                           scheduled |-> g.threads \ h.threads],
                 !.superseded = IF g.threads # h.threads THEN @ \cup h.threads ELSE @]

\* One invocation of the callback, by whom, and what handing its failure
\* to handle_error does.
Invoked(h, by, tid, outcome, handed) ==
    LET g == [h EXCEPT !.invocations = Append(@, [by |-> by, tid |-> tid, outcome |-> outcome])]
    IN IF outcome # Returned /\ handed THEN Handled(g, outcome) ELSE g

\* The calls made on the handler from outside its own retry threads.
Ops(h) == h.deliveries + h.calls + h.admin

\* The consumer delivers the message to the callback and hands a failure
\* to handle_error.
Deliver ==
    /\ Ops(eh) < MaxCalls
    /\ \E outcome \in {Returned} \cup CallbackErrors :
         eh' = Invoked([eh EXCEPT !.deliveries = @ + 1], "delivery", 0, outcome, TRUE)
    /\ UNCHANGED <<taskVars, svcVars, rtVars, pollVars, scanVars, brokerVars, moreVars>>

\* handle_error called for the message while it may have a retry pending.
HandleError ==
    /\ Ops(eh) < MaxCalls
    /\ \E error \in Errors :
         eh' = Handled([eh EXCEPT !.calls = @ + 1], error)
    /\ UNCHANGED <<taskVars, svcVars, rtVars, pollVars, scanVars, brokerVars, moreVars>>

\* _execute_retry of a thread whose delay has elapsed: the callback is
\* invoked; an exception it raises is logged and handled no further; a
\* callback that hands its failure to handle_error does so before it
\* returns. finally: whatever retry_threads holds for the message is
\* deleted.
ExecuteRetry ==
    /\ \E tid \in eh.threads, outcome \in {Returned} \cup CallbackErrors :
         LET h == [eh EXCEPT !.threads = @ \ {tid}]
             g == Invoked(h, "retry", tid, outcome, eh.wrapper)
         IN eh' = [g EXCEPT !.tracked = 0]
    /\ UNCHANGED <<taskVars, svcVars, rtVars, pollVars, scanVars, brokerVars, moreVars>>

\* clear_dead_letter_queue()
ClearDeadLetterQueue ==
    /\ Ops(eh) < MaxCalls
    /\ eh.dead_letter_queue # <<>>
    /\ eh' = [eh EXCEPT !.admin = @ + 1, !.dead_letter_queue = <<>>]
    /\ UNCHANGED <<taskVars, svcVars, rtVars, pollVars, scanVars, brokerVars, moreVars>>

\* retry_dead_letter_message(index, retry_callback) with a valid index:
\* _retry_count is reset, the callback invoked directly, and the entry
\* popped unless the callback raised.
RetryDeadLetterMessage ==
    /\ Ops(eh) < MaxCalls
    /\ \E index \in 1..Len(eh.dead_letter_queue), outcome \in {Returned} \cup CallbackErrors :
         LET h == [eh EXCEPT !.admin = @ + 1, !.retry_count = 0]
             g == Invoked(h, "dead_letter", 0, outcome, eh.wrapper)
             q == g.dead_letter_queue
         IN eh' = IF outcome # Returned /\ ~eh.wrapper THEN g
                  ELSE [g EXCEPT !.dead_letter_queue =
                           SubSeq(q, 1, index - 1) \o SubSeq(q, index + 1, Len(q))]
    /\ UNCHANGED <<taskVars, svcVars, rtVars, pollVars, scanVars, brokerVars, moreVars>>

\* The callback either hands its own failures to handle_error or lets them
\* escape.
ErrorHandlerInit ==
    /\ MoreIdle
    /\ TaskIdle
    /\ SvcInit
    /\ rt = RtIdle
    /\ poll = PollIdle
    /\ scan = ScanIdle
    /\ broker = BrokerIdle
    /\ \E wrapper \in BOOLEAN : eh = [EhIdle EXCEPT !.wrapper = wrapper]

ErrorHandlerNext ==
    \/ Deliver
    \/ HandleError
    \/ ExecuteRetry
    \/ ClearDeadLetterQueue
    \/ RetryDeadLetterMessage

ErrorHandlerSpec == ErrorHandlerInit /\ [][ErrorHandlerNext]_vars

----------------------------------------------------------------------------
(* InMemoryBroker of core/message_broker/infrastructure/in_memory_broker.py *)

\* The invocations one publish starts: one task per entry of the list, in
\* list order, each called with the published message.
Dispatch(subs, kind, type, id) ==
    [i \in 1..Len(subs) |->
        [callback |-> subs[i], kind |-> kind, type |-> type, id |-> id]]

\* Mutant: the first subscriber of the list is skipped.
publish_event_Mut(b, event, fails) ==
    IF ~b.is_connected THEN [raised |-> TRUE, invoked |-> <<>>]
    ELSE LET subs == b.event_subscribers[event.event_type]
         IN [raised |-> fails /\ subs # <<>>,
             invoked |-> IF subs = <<>> THEN <<>>
                         ELSE Dispatch(Tail(subs), "event", event.event_type, event.event_id)]

\* publish_event(event): RuntimeError when not connected; otherwise a task
\* per callback of event.event_type, all awaited; an exception of a
\* callback is logged and raised again.
publish_event(b, event, fails) ==
    IF ~b.is_connected THEN [raised |-> TRUE, invoked |-> <<>>]
    ELSE LET subs == b.event_subscribers[event.event_type]
         IN [raised |-> fails /\ subs # <<>>,
             invoked |-> Dispatch(subs, "event", event.event_type, event.event_id)]

\* publish_command(command_type, payload)
publish_command(b, command_type, payload, fails) ==
    IF ~b.is_connected THEN [raised |-> TRUE, invoked |-> <<>>]
    ELSE LET subs == b.command_subscribers[command_type]
         IN [raised |-> fails /\ subs # <<>>,
             invoked |-> Dispatch(subs, "command", command_type, payload)]

\* Mutant: the callback is registered whether connected or not.
subscribe_to_event_Mut(b, event_type, callback) ==
    [raised |-> ~b.is_connected,
     event_subscribers |-> [b.event_subscribers EXCEPT ![event_type] = Append(@, callback)]]

\* subscribe_to_event(event_type, callback): RuntimeError when not
\* connected; otherwise the callback is appended to the list of the type.
subscribe_to_event(b, event_type, callback) ==
    IF ~b.is_connected THEN [raised |-> TRUE, event_subscribers |-> b.event_subscribers]
    ELSE [raised |-> FALSE,
          event_subscribers |-> [b.event_subscribers EXCEPT ![event_type] = Append(@, callback)]]

\* subscribe_to_command(command_type, callback)
subscribe_to_command(b, command_type, callback) ==
    IF ~b.is_connected THEN [raised |-> TRUE, command_subscribers |-> b.command_subscribers]
    ELSE [raised |-> FALSE,
          command_subscribers |-> [b.command_subscribers EXCEPT ![command_type] = Append(@, callback)]]

\* What an operation leaves in `last`.
BrokerOp(op, raised, invoked) ==
    [op |-> op, connected |-> broker.is_connected, raised |-> raised,
     invoked |-> invoked, before |-> BrokerTables(broker)]

\* The registrations made so far.
Subscriptions(b) ==
    LET SumLen(f) == IF DOMAIN f = {} THEN 0
                     ELSE LET Sum[S \in SUBSET DOMAIN f] ==
                                IF S = {} THEN 0
                                ELSE LET t == CHOOSE x \in S : TRUE
                                     IN Len(f[t]) + Sum[S \ {t}]
                          IN Sum[DOMAIN f]
    IN SumLen(b.event_subscribers) + SumLen(b.command_subscribers)

Connect ==
    /\ broker' = [broker EXCEPT !.is_connected = TRUE,
                                !.last = BrokerOp("connect", FALSE, <<>>)]
    /\ UNCHANGED <<taskVars, svcVars, rtVars, pollVars, scanVars, ehVars, moreVars>>

Disconnect ==
    /\ broker' = [broker EXCEPT !.is_connected = FALSE,
                                !.last = BrokerOp("disconnect", FALSE, <<>>)]
    /\ UNCHANGED <<taskVars, svcVars, rtVars, pollVars, scanVars, ehVars, moreVars>>

\* One publisher publishes its next event and awaits the call.
PublishEvent ==
    /\ Len(broker.published) < MaxPublish
    /\ \E event_type \in BrokerEventTypes, fails \in BOOLEAN :
         LET event == [event_type |-> event_type, event_id |-> Len(broker.published) + 1]
             r == publish_event(broker, event, fails)
         IN /\ fails => r.invoked # <<>>
            /\ broker' = [broker EXCEPT
                  !.published = IF broker.is_connected
                                THEN Append(@, [kind |-> "event", type |-> event_type,
                                                subscribers |-> broker.event_subscribers[event_type]])
                                ELSE @,
                  !.delivered = @ \o r.invoked,
                  !.last = BrokerOp("publish_event", r.raised, r.invoked)]
    /\ UNCHANGED <<taskVars, svcVars, rtVars, pollVars, scanVars, ehVars, moreVars>>

PublishCommand ==
    /\ Len(broker.published) < MaxPublish
    /\ \E command_type \in BrokerCommandTypes, fails \in BOOLEAN :
         LET r == publish_command(broker, command_type, Len(broker.published) + 1, fails)
         IN /\ fails => r.invoked # <<>>
            /\ broker' = [broker EXCEPT
                  !.published = IF broker.is_connected
                                THEN Append(@, [kind |-> "command", type |-> command_type,
                                                subscribers |-> broker.command_subscribers[command_type]])
                                ELSE @,
                  !.delivered = @ \o r.invoked,
                  !.last = BrokerOp("publish_command", r.raised, r.invoked)]
    /\ UNCHANGED <<taskVars, svcVars, rtVars, pollVars, scanVars, ehVars, moreVars>>

SubscribeToEvent ==
    /\ Subscriptions(broker) < MaxSubs
    /\ \E event_type \in BrokerEventTypes, callback \in Callbacks :
         LET r == subscribe_to_event(broker, event_type, callback)
         IN broker' = [broker EXCEPT
               !.event_subscribers = r.event_subscribers,
               !.last = BrokerOp("subscribe_to_event", r.raised, <<>>)]
    /\ UNCHANGED <<taskVars, svcVars, rtVars, pollVars, scanVars, ehVars, moreVars>>

SubscribeToCommand ==
    /\ Subscriptions(broker) < MaxSubs
    /\ \E command_type \in BrokerCommandTypes, callback \in Callbacks :
         LET r == subscribe_to_command(broker, command_type, callback)
         IN broker' = [broker EXCEPT
               !.command_subscribers = r.command_subscribers,
               !.last = BrokerOp("subscribe_to_command", r.raised, <<>>)]
    /\ UNCHANGED <<taskVars, svcVars, rtVars, pollVars, scanVars, ehVars, moreVars>>

BrokerInit ==
    /\ MoreIdle
    /\ TaskIdle
    /\ SvcInit
    /\ rt = RtIdle
    /\ poll = PollIdle
    /\ scan = ScanIdle
    /\ eh = EhIdle
    /\ broker = BrokerIdle

BrokerNext ==
    \/ Connect
    \/ Disconnect
    \/ PublishEvent
    \/ SubscribeToEvent
    \/ PublishCommand
    \/ SubscribeToCommand

BrokerSpec == BrokerInit /\ [][BrokerNext]_vars

----------------------------------------------------------------------------
(* The RabbitMQ consumers: RabbitMQMessageQueue of                         *)
(* infrastructure/message_queue/message_queue.py and RabbitMQBroker of     *)
(* core/message_broker/infrastructure/rabbitmq_broker.py                   *)

\* What a delivery carries: a JSON object with type and payload, a JSON
\* text that is no object (message.get raises AttributeError), or bytes
\* that are no JSON.
Bodies == {"object", "not_object", "not_json"}

\* What a subscriber callback does with a message.
CallbackOutcomes == {"returned", "raised"}

\* RabbitMQMessageQueue._event_callback(ch, method, properties, body), and
\* _command_callback, which has the same text: the callbacks of the type
\* are called one after the other, an exception of one is logged inside
\* the loop, and basic_ack follows the loop.
_event_callback(callbacks, body, outs) ==
    IF body = "not_json" THEN [outcomes |-> <<>>, sent |-> "nack"]
    ELSE IF body = "not_object" THEN [outcomes |-> <<>>, sent |-> "nack_requeue"]
    ELSE [outcomes |-> [i \in 1..Len(callbacks) |-> outs[i]], sent |-> "ack"]

\* RabbitMQBroker.subscribe_to_event.message_handler(message), and the one
\* of subscribe_to_command: parsing and the callback run inside a try whose
\* except only logs, inside `async with message.process()`, which
\* acknowledges when its block ends without an exception.
message_handler(body, out) ==
    IF body # "object" THEN [outcomes |-> <<>>, sent |-> "ack"]
    ELSE [outcomes |-> <<out>>, sent |-> "ack"]

\* subscribe_to_events([event_type], callback) / subscribe_to_event(
\* event_type, callback): one more callback of the type; the broker
\* declares a queue of its own for it.
RmqSubscribe ==
    /\ Len(rmq.callbacks) < MaxSubs
    /\ rmq.published = 0
    /\ \E callback \in Callbacks :
         rmq' = [rmq EXCEPT !.callbacks = Append(@, callback)]
    /\ UNCHANGED <<taskVars, svcVars, extVarsButMore, mon, mqm, conc, inprog, prio, lateVars>>

\* A message of the subscribed type reaches the server: the one event
\* queue of RabbitMQMessageQueue, or the queue of each subscription of
\* RabbitMQBroker.
RmqPublish ==
    /\ rmq.published < MaxPublish
    /\ \E body \in Bodies :
         rmq' = [rmq EXCEPT
            !.published = @ + 1,
            !.queue = IF rmq.impl = "message_queue"
                      THEN Append(@, [body |-> body, to |-> 0])
                      ELSE @ \o [i \in 1..Len(rmq.callbacks) |-> [body |-> body, to |-> i]]]
    /\ UNCHANGED <<taskVars, svcVars, extVarsButMore, mon, mqm, conc, inprog, prio, lateVars>>

\* The server delivers the head of a queue to its consumer; a message
\* refused with requeue goes back to the queue.
RmqDeliver ==
    /\ rmq.queue # <<>>
    /\ Len(rmq.handled) < MaxDeliveries
    /\ \E outs \in [1..Len(rmq.callbacks) -> CallbackOutcomes] :
         LET m == Head(rmq.queue)
             r == IF rmq.impl = "message_queue"
                  THEN _event_callback(rmq.callbacks, m.body, outs)
                  ELSE message_handler(m.body, outs[m.to])
         IN rmq' = [rmq EXCEPT
               !.queue = IF r.sent = "nack_requeue" THEN Append(Tail(@), m) ELSE Tail(@),
               !.handled = Append(@, [body |-> m.body, outcomes |-> r.outcomes, sent |-> r.sent])]
    /\ UNCHANGED <<taskVars, svcVars, extVarsButMore, mon, mqm, conc, inprog, prio, lateVars>>

RabbitInit ==
    /\ TaskIdle
    /\ SvcInit
    /\ rt = RtIdle
    /\ poll = PollIdle
    /\ scan = ScanIdle
    /\ eh = EhIdle
    /\ broker = BrokerIdle
    /\ mon = MonIdle
    /\ mqm = MqmIdle
    /\ conc = ConcIdle
    /\ inprog = InprogIdle
    /\ prio = PrioIdle
    /\ LateIdle
    /\ \E impl \in {"message_queue", "broker"} : rmq = [RmqIdle EXCEPT !.impl = impl]

RabbitNext ==
    \/ RmqSubscribe
    \/ RmqPublish
    \/ RmqDeliver

RabbitSpec == RabbitInit /\ [][RabbitNext]_vars

----------------------------------------------------------------------------
(* EventMonitor of infrastructure/message_queue/event_monitor.py           *)

MonitoredTypes == {"USER_REQUEST_SUBMITTED", "TASK_COMPLETED"}

_is_completion_event(message_type) ==
    message_type \in {"TASK_COMPLETED", "WORKFLOW_COMPLETED", "PRD_APPROVED"}

\* register_event(message_type, message_id, correlation_id, ...) with a
\* correlation id, under workflow_lock.
register_event(m, message_type, correlation_id) ==
    LET w == m.active_workflows[correlation_id]
        known == IF w.status = "absent" THEN [w EXCEPT !.status = "active"] ELSE w
    IN [m EXCEPT !.active_workflows[correlation_id] =
           [known EXCEPT !.events = @ + 1,
                         !.last_update_time = m.clock,
                         !.status = IF _is_completion_event(message_type)
                                    THEN "completed" ELSE @]]

\* register_command(message_type, message_id, correlation_id, ...)
register_command(m, correlation_id) ==
    LET w == m.active_workflows[correlation_id]
        known == IF w.status = "absent" THEN [w EXCEPT !.status = "active"] ELSE w
    IN [m EXCEPT !.active_workflows[correlation_id] =
           [known EXCEPT !.commands = @ + 1, !.last_update_time = m.clock]]

\* The list _check_for_stalled_workflows builds under workflow_lock, in the
\* order of the dictionary.
RECURSIVE StalledList(_, _)
StalledList(m, cids) ==
    IF cids = {} THEN <<>>
    ELSE LET cid == CHOOSE c \in cids : \A d \in cids : m.active_workflows[c].last_update_time <= m.active_workflows[d].last_update_time
             w == m.active_workflows[cid]
             rest == StalledList(m, cids \ {cid})
         IN IF w.status = "active" /\ m.clock - w.last_update_time > m.alert_threshold_seconds
            THEN <<cid>> \o rest
            ELSE rest

MonTick ==
    /\ mon.clock < MaxClock
    /\ mon' = [mon EXCEPT !.clock = @ + 1]
    /\ UNCHANGED <<taskVars, svcVars, extVarsButMore, rmq, mqm, conc, inprog, prio, lateVars>>

RegisterEvent ==
    /\ \E cid \in Cids, message_type \in MonitoredTypes :
         /\ mon.active_workflows[cid].events + mon.active_workflows[cid].commands < MaxEvents
         /\ mon' = register_event(mon, message_type, cid)
    /\ UNCHANGED <<taskVars, svcVars, extVarsButMore, rmq, mqm, conc, inprog, prio, lateVars>>

RegisterCommand ==
    /\ \E cid \in Cids :
         /\ mon.active_workflows[cid].events + mon.active_workflows[cid].commands < MaxEvents
         /\ mon' = register_command(mon, cid)
    /\ UNCHANGED <<taskVars, svcVars, extVarsButMore, rmq, mqm, conc, inprog, prio, lateVars>>

\* register_alert_callback(callback), between two checks.
RegisterAlertCallback ==
    /\ mon.pc = "sleep"
    /\ Len(mon.alert_callbacks) < MaxCalls
    /\ mon' = [mon EXCEPT !.alert_callbacks = Append(@, "alert_handler")]
    /\ UNCHANGED <<taskVars, svcVars, extVarsButMore, rmq, mqm, conc, inprog, prio, lateVars>>

\* stop(): the loop ends after the check in hand.
MonStop ==
    /\ mon.running
    /\ mon' = [mon EXCEPT !.running = FALSE]
    /\ UNCHANGED <<taskVars, svcVars, extVarsButMore, rmq, mqm, conc, inprog, prio, lateVars>>

\* _monitoring_loop wakes and _check_for_stalled_workflows takes its list
\* under workflow_lock, then releases the lock.
CheckForStalledWorkflows ==
    /\ mon.running
    /\ mon.pc = "sleep"
    /\ mon.clock >= mon.next_check
    /\ mon' = [mon EXCEPT
          !.pc = "alerting",
          !.stalled_workflows = StalledList(mon, Cids),
          !.checks = Append(@, [at |-> mon.clock, workflows |-> mon.active_workflows,
                                callbacks |-> Len(mon.alert_callbacks)])]
    /\ UNCHANGED <<taskVars, svcVars, extVarsButMore, rmq, mqm, conc, inprog, prio, lateVars>>

\* The loop over the list, outside the lock: every callback is called with
\* the alert of the next stalled workflow; an exception of a callback is
\* logged.
AlertStalledWorkflow ==
    /\ mon.pc = "alerting"
    /\ mon.stalled_workflows # <<>>
    /\ LET cid == Head(mon.stalled_workflows)
       IN mon' = [mon EXCEPT
             !.stalled_workflows = Tail(@),
             !.alerts = @ \o [i \in 1..Len(mon.alert_callbacks) |->
                                [type |-> "stalled_workflow", correlation_id |-> cid,
                                 registration |-> i, check |-> Len(mon.checks),
                                 status |-> mon.active_workflows[cid].status]]]
    /\ UNCHANGED <<taskVars, svcVars, extVarsButMore, rmq, mqm, conc, inprog, prio, lateVars>>

\* The check is over and the loop sleeps for its period.
MonSleep ==
    /\ mon.pc = "alerting"
    /\ mon.stalled_workflows = <<>>
    /\ mon' = [mon EXCEPT !.pc = "sleep", !.next_check = mon.clock + 1]
    /\ UNCHANGED <<taskVars, svcVars, extVarsButMore, rmq, mqm, conc, inprog, prio, lateVars>>

MonitorInit ==
    /\ TaskIdle
    /\ SvcInit
    /\ rt = RtIdle
    /\ poll = PollIdle
    /\ scan = ScanIdle
    /\ eh = EhIdle
    /\ broker = BrokerIdle
    /\ rmq = RmqIdle
    /\ mqm = MqmIdle
    /\ conc = ConcIdle
    /\ inprog = InprogIdle
    /\ prio = PrioIdle
    /\ LateIdle
    /\ mon = MonIdle

MonitorNext ==
    \/ MonTick
    \/ RegisterEvent
    \/ RegisterCommand
    \/ RegisterAlertCallback
    \/ MonStop
    \/ CheckForStalledWorkflows
    \/ AlertStalledWorkflow
    \/ MonSleep

MonitorSpec == MonitorInit /\ [][MonitorNext]_vars

\* ------------------------------------------------------------------
\* prioritize_tasks and get_next_task of the asyncio polling service on
\* arbitrary task lists.

\* The Task fields prioritisation may read.
PrioTasks ==
    [priority : TaskPriority, status : {ASSIGNED, REVIEW, BLOCKED}, created_at : 0..MaxTime]

\* The lists of distinct tasks find_tasks_by_assignee can return.
PrioLists ==
    {<<>>} \cup {<<id>> : id \in PollTaskIds}
           \cup {ids \in PollTaskIds \X PollTaskIds : ids[1] # ids[2]}

\* await prioritize_tasks(tasks)
PrioritizeTasks ==
    /\ prio.pc = "idle"
    /\ prio' = [prio EXCEPT !.pc = "prioritized",
                            !.prioritized = prioritize_tasks(prio.ids, prio.tasks)]
    /\ UNCHANGED <<taskVars, svcVars, extVarsButMore, rmq, mon, mqm, conc, inprog, lateVars>>

\* await get_next_task(), the repository holding the tasks of the list.
PrioGetNextTask ==
    /\ prio.pc = "idle"
    /\ prio' = [prio EXCEPT !.pc = "next", !.next = get_next_task(prio.tasks)]
    /\ UNCHANGED <<taskVars, svcVars, extVarsButMore, rmq, mon, mqm, conc, inprog, lateVars>>

PrioritizeInit ==
    /\ TaskIdle
    /\ SvcInit
    /\ rt = RtIdle
    /\ poll = PollIdle
    /\ scan = ScanIdle
    /\ eh = EhIdle
    /\ broker = BrokerIdle
    /\ rmq = RmqIdle
    /\ mon = MonIdle
    /\ mqm = MqmIdle
    /\ conc = ConcIdle
    /\ inprog = InprogIdle
    /\ LateIdle
    /\ \E ids \in PrioLists, tasks \in [PollTaskIds -> PrioTasks] :
         prio = [PrioIdle EXCEPT !.ids = ids, !.tasks = tasks]

PrioritizeNext ==
    \/ PrioritizeTasks
    \/ PrioGetNextTask

PrioritizeSpec == PrioritizeInit /\ [][PrioritizeNext]_vars

\* ------------------------------------------------------------------
\* InMemoryMessageQueue with the MessageQueueMonitor's interceptors
\* installed in place of publish_event and publish_command.

\* The subscriber "failing_handler" raises on every message, "handler"
\* returns.
CallbackRaises(callback) == callback = "failing_handler"

\* The loop over the subscribers of a type without the try/except around
\* the call: the first exception ends the loop and leaves the method.
RECURSIVE CallUnguarded(_)
CallUnguarded(callbacks) ==
    IF callbacks = <<>> THEN [invoked |-> <<>>, raised |-> FALSE]
    ELSE IF CallbackRaises(Head(callbacks))
         THEN [invoked |-> <<Head(callbacks)>>, raised |-> TRUE]
         ELSE LET r == CallUnguarded(Tail(callbacks))
              IN [invoked |-> <<Head(callbacks)>> \o r.invoked, raised |-> r.raised]

\* The loop as written: each callback is called inside try/except
\* Exception, which logs.
RECURSIVE CallGuarded(_)
CallGuarded(callbacks) ==
    IF callbacks = <<>> THEN [invoked |-> <<>>, raised |-> FALSE]
    ELSE LET r == CallGuarded(Tail(callbacks))
         IN [invoked |-> <<Head(callbacks)>> \o r.invoked, raised |-> r.raised]

InMemoryMessageQueue_publish_Mut(subscribers, message_type) ==
    CallUnguarded(subscribers[message_type])

\* InMemoryMessageQueue.publish_event / publish_command: the callbacks
\* invoked, in order, and whether the call raised.
InMemoryMessageQueue_publish(subscribers, message_type) ==
    CallGuarded(subscribers[message_type])

\* _intercept_publish_event / _intercept_publish_command: register with
\* the monitor, then the original publish, all inside one try; the except
\* clause calls the original publish (again).
_intercept_publish(subscribers, message_type, monitor_raises) ==
    LET tried == IF monitor_raises
                 THEN [invoked |-> <<>>, raised |-> TRUE]
                 ELSE InMemoryMessageQueue_publish(subscribers, message_type)
        handler == IF tried.raised
                   THEN InMemoryMessageQueue_publish(subscribers, message_type)
                   ELSE [invoked |-> <<>>, raised |-> FALSE]
    IN [registered |-> ~monitor_raises,
        invoked |-> tried.invoked \o handler.invoked,
        raised |-> handler.raised]

MqmSubscriptions ==
    LET RECURSIVE Sum(_)
        Sum(S) == IF S = {} THEN 0
                  ELSE LET t == CHOOSE t \in S : TRUE
                       IN Len(mqm.event_subscribers[t]) + Len(mqm.command_subscribers[t])
                          + Sum(S \ {t})
    IN Sum(MqTypes)

\* subscribe_to_events([event_type], callback)
MqmSubscribeToEvents ==
    /\ MqmSubscriptions < MaxSubs
    /\ \E event_type \in {"TASK_ASSIGNED", "TASK_COMPLETED"}, callback \in MqCallbacks :
         mqm' = [mqm EXCEPT !.event_subscribers[event_type] = Append(@, callback)]
    /\ UNCHANGED <<taskVars, svcVars, extVarsButMore, rmq, mon, conc, inprog, prio, lateVars>>

\* subscribe_to_commands([command_type], callback)
MqmSubscribeToCommands ==
    /\ MqmSubscriptions < MaxSubs
    /\ \E callback \in MqCallbacks :
         mqm' = [mqm EXCEPT !.command_subscribers["UPDATE_TASK_STATUS"] = Append(@, callback)]
    /\ UNCHANGED <<taskVars, svcVars, extVarsButMore, rmq, mon, conc, inprog, prio, lateVars>>

\* message_queue.publish_event(event_type, payload), intercepted.
\* register_event raises or not (a payload without .get, a monitor that
\* fails).
InterceptPublishEvent ==
    /\ mqm.published < MaxPublish
    /\ \E event_type \in {"TASK_ASSIGNED", "TASK_COMPLETED"}, monitor_raises \in BOOLEAN :
         LET r == _intercept_publish(mqm.event_subscribers, event_type, monitor_raises)
         IN mqm' = [mqm EXCEPT
               !.published = @ + 1,
               !.last = [kind |-> "event", type |-> event_type,
                         monitor_raised |-> monitor_raises, registered |-> r.registered,
                         subscribers |-> mqm.event_subscribers[event_type],
                         invoked |-> r.invoked, raised |-> r.raised]]
    /\ UNCHANGED <<taskVars, svcVars, extVarsButMore, rmq, mon, conc, inprog, prio, lateVars>>

\* message_queue.publish_command(command_type, payload), intercepted.
InterceptPublishCommand ==
    /\ mqm.published < MaxPublish
    /\ \E monitor_raises \in BOOLEAN :
         LET r == _intercept_publish(mqm.command_subscribers, "UPDATE_TASK_STATUS",
                                     monitor_raises)
         IN mqm' = [mqm EXCEPT
               !.published = @ + 1,
               !.last = [kind |-> "command", type |-> "UPDATE_TASK_STATUS",
                         monitor_raised |-> monitor_raises, registered |-> r.registered,
                         subscribers |-> mqm.command_subscribers["UPDATE_TASK_STATUS"],
                         invoked |-> r.invoked, raised |-> r.raised]]
    /\ UNCHANGED <<taskVars, svcVars, extVarsButMore, rmq, mon, conc, inprog, prio, lateVars>>

QueueMonitorInit ==
    /\ TaskIdle
    /\ SvcInit
    /\ rt = RtIdle
    /\ poll = PollIdle
    /\ scan = ScanIdle
    /\ eh = EhIdle
    /\ broker = BrokerIdle
    /\ rmq = RmqIdle
    /\ mon = MonIdle
    /\ mqm = MqmIdle
    /\ conc = ConcIdle
    /\ inprog = InprogIdle
    /\ prio = PrioIdle
    /\ LateIdle

QueueMonitorNext ==
    \/ MqmSubscribeToEvents
    \/ MqmSubscribeToCommands
    \/ InterceptPublishEvent
    \/ InterceptPublishCommand

QueueMonitorSpec == QueueMonitorInit /\ [][QueueMonitorNext]_vars

\* ------------------------------------------------------------------
\* Two TaskService calls on one task_id running as concurrent asyncio
\* tasks. A call gives up control at its awaits: get_by_id, save and
\* publish_event. The service holds no lock.

\* update_task_status / complete_task / cancel_task is called and awaits
\* get_by_id.
ConcStart ==
    /\ \E c \in ConcCalls :
         /\ conc.call[c].pc = "idle"
         /\ \E op \in {"update_task_status", "complete_task", "cancel_task"} :
              \E arg \in (CASE op = "update_task_status" -> {IN_PROGRESS, REVIEW, BLOCKED}
                            [] op = "complete_task" -> {<<>>}
                            [] OTHER -> {NoArg}) :
                conc' = [conc EXCEPT !.call[c] = [ConcCallIdle EXCEPT !.pc = "get", !.op = op,
                                                                     !.arg = arg]]
    /\ UNCHANGED <<taskVars, svcVars, extVarsButMore, rmq, mon, mqm, inprog, prio, lateVars>>

\* get_by_id returns a Task built from the stored document; the domain
\* operation runs on that object; a ValueError leaves the call, else save
\* is awaited.
ConcGetReturns ==
    /\ \E c \in ConcCalls :
         /\ conc.call[c].pc = "get"
         /\ LET t == from_dict(conc.repo.doc, now)
                res == DomainCall(conc.call[c].op, conc.call[c].arg, t, now)
            IN conc' = [conc EXCEPT !.call[c].pc = IF res.raised THEN "failed" ELSE "save",
                                    !.call[c].loaded = t.status,
                                    !.call[c].task = res.task]
    /\ UNCHANGED <<taskVars, svcVars, extVarsButMore, rmq, mon, mqm, inprog, prio, lateVars>>

\* save stores the call's Task object (upsert by task_id); the events are
\* published and cleared and the call returns.
ConcSaveReturns ==
    /\ \E c \in ConcCalls :
         /\ conc.call[c].pc = "save"
         /\ conc' = [conc EXCEPT
               !.repo = save(conc.call[c].task),
               !.persisted = Append(@, [status |-> conc.call[c].task.status,
                                        loaded |-> conc.call[c].loaded,
                                        replaced |-> conc.repo.doc.status,
                                        by |-> c]),
               !.call[c].pc = "returned",
               !.call[c].task = clear_events(conc.call[c].task)]
    /\ UNCHANGED <<taskVars, svcVars, extVarsButMore, rmq, mon, mqm, inprog, prio, lateVars>>

ConcurrentInit ==
    /\ TaskIdle
    /\ SvcInit
    /\ rt = RtIdle
    /\ poll = PollIdle
    /\ scan = ScanIdle
    /\ eh = EhIdle
    /\ broker = BrokerIdle
    /\ rmq = RmqIdle
    /\ mon = MonIdle
    /\ mqm = MqmIdle
    /\ inprog = InprogIdle
    /\ prio = PrioIdle
    /\ LateIdle
    /\ \E status \in {ASSIGNED, IN_PROGRESS, BLOCKED, REVIEW} :
         conc = [ConcIdle EXCEPT
                   !.repo = save(Task__init__(status, "agent-1", <<>>, 0, 0, FALSE))]

ConcurrentNext ==
    \/ ConcStart
    \/ ConcGetReturns
    \/ ConcSaveReturns

ConcurrentSpec == ConcurrentInit /\ [][ConcurrentNext]_vars

\* ------------------------------------------------------------------
\* InMemoryBroker, connected, with asyncio tasks that publish
\* concurrently. A subscriber callback is a coroutine: once started it is
\* in progress until it has run through its awaits.

\* publish_event / publish_command up to `await asyncio.gather(*tasks)`:
\* one task is created for every callback subscribed to the type.
InprogPublish ==
    /\ inprog.published < MaxPublish
    /\ \E p \in Publishers, kind \in {"event", "command"} :
         /\ inprog.pub[p].pc = "idle"
         /\ inprog' = [inprog EXCEPT
               !.published = @ + 1,
               !.pub[p] = IF inprog.subscribers[kind] = <<>>
                          THEN [NoPublishCall EXCEPT !.kind = kind]
                          ELSE [pc |-> "gather", kind |-> kind,
                                tasks |-> [i \in DOMAIN inprog.subscribers[kind] |-> "created"]]]
    /\ UNCHANGED <<taskVars, svcVars, extVarsButMore, rmq, mon, mqm, conc, prio, lateVars>>

\* The event loop runs a created task: callback(event) starts and reaches
\* an await inside the callback.
CallbackStarts ==
    /\ \E p \in Publishers :
         \E i \in DOMAIN inprog.pub[p].tasks :
            /\ inprog.pub[p].tasks[i] = "created"
            /\ inprog' = [inprog EXCEPT !.pub[p].tasks[i] = "in_progress"]
    /\ UNCHANGED <<taskVars, svcVars, extVarsButMore, rmq, mon, mqm, conc, prio, lateVars>>

\* The callback's awaits complete and it returns.
CallbackReturns ==
    /\ \E p \in Publishers :
         \E i \in DOMAIN inprog.pub[p].tasks :
            /\ inprog.pub[p].tasks[i] = "in_progress"
            /\ inprog' = [inprog EXCEPT !.pub[p].tasks[i] = "done"]
    /\ UNCHANGED <<taskVars, svcVars, extVarsButMore, rmq, mon, mqm, conc, prio, lateVars>>

\* asyncio.gather returns when every task is done; the publish returns.
GatherReturns ==
    /\ \E p \in Publishers :
         /\ inprog.pub[p].pc = "gather"
         /\ \A i \in DOMAIN inprog.pub[p].tasks : inprog.pub[p].tasks[i] = "done"
         /\ inprog' = [inprog EXCEPT !.pub[p] = NoPublishCall]
    /\ UNCHANGED <<taskVars, svcVars, extVarsButMore, rmq, mon, mqm, conc, prio, lateVars>>

\* The broker after connect() and the subscriptions: one or two callbacks
\* on the event type, one consumer on the command type.
ConcurrentBrokerInit ==
    /\ TaskIdle
    /\ SvcInit
    /\ rt = RtIdle
    /\ poll = PollIdle
    /\ scan = ScanIdle
    /\ eh = EhIdle
    /\ broker = BrokerIdle
    /\ rmq = RmqIdle
    /\ mon = MonIdle
    /\ mqm = MqmIdle
    /\ conc = ConcIdle
    /\ prio = PrioIdle
    /\ LateIdle
    /\ \E callbacks \in {<<"cb1">>, <<"cb1", "cb2">>} :
         inprog = [InprogIdle EXCEPT !.subscribers =
                     [kind \in {"event", "command"} |->
                        IF kind = "event" THEN callbacks ELSE <<"cb1">>]]

ConcurrentBrokerNext ==
    \/ InprogPublish
    \/ CallbackStarts
    \/ CallbackReturns
    \/ GatherReturns

ConcurrentBrokerSpec == ConcurrentBrokerInit /\ [][ConcurrentBrokerNext]_vars

\* ------------------------------------------------------------------
\* The threads of a periodic service: TaskScanningService, and
\* TaskPollingService of product_definition/application with its
\* processing thread and its processing_lock (a threading.Lock, not
\* re-entrant). thr.lock is "stop" while stop() holds the lock across its
\* join and "loop" when the polling thread holds it for good.

\* start(): a second start of a running service only logs a warning; else
\* a new loop thread is started, whatever became of the earlier ones.
ThrStart ==
    /\ ~thr.running
    /\ thr.stop.pc = "idle"
    /\ thr.starts < MaxCalls
    /\ thr' = [thr EXCEPT !.running = TRUE, !.starts = @ + 1,
                          !.loops = Append([i \in DOMAIN thr.loops |->
                                               [thr.loops[i] EXCEPT !.ticked = FALSE]], NoLoop)]
    /\ UNCHANGED <<taskVars, svcVars, extVarsButMore, rmq, mon, mqm, conc, inprog, prio,
                   dl, rd, elog>>

\* stop() up to its join on the loop thread: running is set to False.
ThrStop ==
    /\ thr.running
    /\ thr.stop.pc = "idle"
    /\ thr' = [thr EXCEPT !.running = FALSE,
                          !.stop = [NoStop EXCEPT !.pc = "join_loop", !.target = Len(thr.loops)],
                          !.last_stop = NoStopReturn]
    /\ UNCHANGED <<taskVars, svcVars, extVarsButMore, rmq, mon, mqm, conc, inprog, prio,
                   dl, rd, elog>>

\* join(timeout=10) on the loop thread returns: the thread has exited, or
\* ten seconds have passed while it sleeps its interval or waits for the
\* lock. The scanner's stop() returns here; the poller's goes on to take
\* processing_lock.
StopJoinLoopReturns ==
    /\ thr.stop.pc = "join_loop"
    /\ \/ thr.loops[thr.stop.target].pc \in {"exited", "sleep", "deadlocked"}
       \/ thr.loops[thr.stop.target].pc = "entering" /\ thr.lock # "free"
    /\ thr' = IF thr.kind = "scanner"
              THEN [thr EXCEPT !.stop = NoStop,
                               !.loops[thr.stop.target].stopped = TRUE,
                               !.last_stop = [NoStopReturn EXCEPT !.returned = TRUE]]
              ELSE [thr EXCEPT !.stop.pc = "lock"]
    /\ UNCHANGED <<taskVars, svcVars, extVarsButMore, rmq, mon, mqm, conc, inprog, prio,
                   dl, rd, elog>>

\* stop() takes processing_lock. With no processing thread alive it
\* returns at once; else it joins the thread (timeout=30) with the lock
\* held.
StopAcquiresLock ==
    /\ thr.stop.pc = "lock"
    /\ thr.lock = "free"
    /\ thr' = IF thr.proc = "none"
              THEN [thr EXCEPT !.stop = NoStop,
                               !.loops[thr.stop.target].stopped = TRUE,
                               !.last_stop = [NoStopReturn EXCEPT !.returned = TRUE]]
              ELSE [thr EXCEPT !.lock = "stop", !.stop.pc = "join_processing",
                               !.stop.found_alive = TRUE]
    /\ UNCHANGED <<taskVars, svcVars, extVarsButMore, rmq, mon, mqm, conc, inprog, prio,
                   dl, rd, elog>>

\* The join on the processing thread returns, because the thread has
\* terminated or because the thirty seconds have passed; stop() releases
\* the lock and returns.
StopJoinProcessingReturns ==
    /\ thr.stop.pc = "join_processing"
    /\ thr' = [thr EXCEPT !.lock = "free", !.stop = NoStop,
                          !.loops[thr.stop.target].stopped = TRUE,
                          !.last_stop = [returned |-> TRUE, found_alive |-> TRUE,
                                         alive |-> thr.proc # "none",
                                         work_done |-> thr.proc # "working"]]
    /\ UNCHANGED <<taskVars, svcVars, extVarsButMore, rmq, mon, mqm, conc, inprog, prio,
                   dl, rd, elog>>

\* time.sleep(interval) of a loop returns.
LoopWakes ==
    /\ \E i \in DOMAIN thr.loops :
         /\ thr.loops[i].pc = "sleep"
         /\ thr' = [thr EXCEPT !.loops[i].pc = "awake"]
    /\ UNCHANGED <<taskVars, svcVars, extVarsButMore, rmq, mon, mqm, conc, inprog, prio,
                   dl, rd, elog>>

\* `while self.running:` of a loop: it reads the flag of the instance.
LoopChecksRunning ==
    /\ \E i \in DOMAIN thr.loops :
         /\ thr.loops[i].pc = "awake"
         /\ thr' = [thr EXCEPT !.loops[i].pc = IF thr.running THEN "entering" ELSE "exited"]
    /\ UNCHANGED <<taskVars, svcVars, extVarsButMore, rmq, mon, mqm, conc, inprog, prio,
                   dl, rd, elog>>

\* The body of a loop pass. The scanner performs its scan. The poller takes
\* processing_lock and, the slot being free, calls _poll_for_tasks: what
\* that publishes is delivered to the subscribers in this thread, and a
\* subscriber that publishes TASK_UNASSIGNED for product_manager_pool from
\* there makes _handle_task_assignment_events ask for the lock this thread
\* holds. A poll that does not raise starts the processing thread.
LoopTick ==
    /\ \E i \in DOMAIN thr.loops, reentrant_unassign \in BOOLEAN :
         /\ thr.loops[i].pc = "entering"
         /\ thr.kind = "poller" => thr.lock = "free"
         /\ LET r == _poll_for_tasks(FALSE)
                polled == thr.kind = "poller" /\ thr.proc = "none"
                under_lock == IF polled /\ ~r.raised THEN <<r.out[1]>> ELSE <<>>
                ticked == [thr EXCEPT !.loops[i].late = @ \/ thr.loops[i].stopped,
                                      !.loops[i].ticked = TRUE]
            IN thr' = IF under_lock # <<>> /\ reentrant_unassign
                      THEN [ticked EXCEPT !.loops[i].pc = "deadlocked", !.lock = "loop",
                                          !.arrived = @ + 1]
                      ELSE [ticked EXCEPT !.loops[i].pc = "sleep",
                                          !.proc = IF polled /\ ~r.raised THEN "working" ELSE @]
    /\ UNCHANGED <<taskVars, svcVars, extVarsButMore, rmq, mon, mqm, conc, inprog, prio,
                   dl, rd, elog>>

\* _process_task_async(task) called with the slot free: the slot is taken
\* and the processing thread started.
ThrProcessTaskAsync ==
    /\ thr.kind = "poller"
    /\ thr.proc = "none"
    /\ thr.stop.pc \notin {"lock", "join_processing"}
    /\ thr' = [thr EXCEPT !.proc = "working"]
    /\ UNCHANGED <<taskVars, svcVars, extVarsButMore, rmq, mon, mqm, conc, inprog, prio,
                   dl, rd, elog>>

\* _process_task_thread up to its finally block: the agent is called and
\* the messages of its verdict are published.
ProcessingWorkDone ==
    /\ thr.proc = "working"
    /\ thr' = [thr EXCEPT !.proc = "finally"]
    /\ UNCHANGED <<taskVars, svcVars, extVarsButMore, rmq, mon, mqm, conc, inprog, prio,
                   dl, rd, elog>>

\* The finally block: under processing_lock the slot is freed, and the
\* thread terminates.
ProcessingFinally ==
    /\ thr.proc = "finally"
    /\ thr.lock = "free"
    /\ thr' = [thr EXCEPT !.proc = "none"]
    /\ UNCHANGED <<taskVars, svcVars, extVarsButMore, rmq, mon, mqm, conc, inprog, prio,
                   dl, rd, elog>>

\* Another thread publishes TASK_UNASSIGNED for product_manager_pool:
\* _handle_task_assignment_events is called in that thread and asks for
\* processing_lock.
UnassignedArrives ==
    /\ thr.kind = "poller"
    /\ thr.arrived < MaxEvents
    /\ thr' = [thr EXCEPT !.arrived = @ + 1,
                          !.arrived_locked = @ \/ thr.lock # "free"]
    /\ UNCHANGED <<taskVars, svcVars, extVarsButMore, rmq, mon, mqm, conc, inprog, prio,
                   dl, rd, elog>>

\* _handle_task_assignment_events gets the lock, compares the slot with the
\* task id, logs and returns.
HandleTaskAssignmentEvents ==
    /\ thr.handled < thr.arrived
    /\ thr.lock = "free"
    /\ thr' = [thr EXCEPT !.handled = @ + 1]
    /\ UNCHANGED <<taskVars, svcVars, extVarsButMore, rmq, mon, mqm, conc, inprog, prio,
                   dl, rd, elog>>

ThreadsInit ==
    /\ TaskIdle
    /\ SvcInit
    /\ rt = RtIdle
    /\ poll = PollIdle
    /\ scan = ScanIdle
    /\ eh = EhIdle
    /\ broker = BrokerIdle
    /\ rmq = RmqIdle
    /\ mon = MonIdle
    /\ mqm = MqmIdle
    /\ conc = ConcIdle
    /\ inprog = InprogIdle
    /\ prio = PrioIdle
    /\ dl = DlIdle
    /\ rd = RdIdle
    /\ elog = ElogIdle
    /\ \E kind \in {"scanner", "poller"} : thr = [ThrIdle EXCEPT !.kind = kind]

ThreadsNext ==
    \/ ThrStart
    \/ ThrStop
    \/ StopJoinLoopReturns
    \/ StopAcquiresLock
    \/ StopJoinProcessingReturns
    \/ LoopWakes
    \/ LoopChecksRunning
    \/ LoopTick
    \/ ThrProcessTaskAsync
    \/ ProcessingWorkDone
    \/ ProcessingFinally
    \/ UnassignedArrives
    \/ HandleTaskAssignmentEvents

ThreadsSpec == ThreadsInit /\ [][ThreadsNext]_vars

\* One run of the polling service, from the return of start() on: the
\* loop thread, stop(), the processing thread and the event handler.
PollerRunInit ==
    /\ TaskIdle
    /\ SvcInit
    /\ rt = RtIdle
    /\ poll = PollIdle
    /\ scan = ScanIdle
    /\ eh = EhIdle
    /\ broker = BrokerIdle
    /\ rmq = RmqIdle
    /\ mon = MonIdle
    /\ mqm = MqmIdle
    /\ conc = ConcIdle
    /\ inprog = InprogIdle
    /\ prio = PrioIdle
    /\ dl = DlIdle
    /\ rd = RdIdle
    /\ elog = ElogIdle
    /\ thr = [ThrIdle EXCEPT !.kind = "poller", !.running = TRUE, !.starts = 1,
                             !.loops = <<NoLoop>>]

PollerRunNext ==
    \/ ThrStop
    \/ StopJoinLoopReturns
    \/ StopAcquiresLock
    \/ StopJoinProcessingReturns
    \/ LoopWakes
    \/ LoopChecksRunning
    \/ LoopTick
    \/ ThrProcessTaskAsync
    \/ ProcessingWorkDone
    \/ ProcessingFinally
    \/ UnassignedArrives
    \/ HandleTaskAssignmentEvents

PollerRunSpec == PollerRunInit /\ [][PollerRunNext]_vars

\* The threads are scheduled: a thread that can take a step takes it, a
\* join with a timeout returns, and a thread waiting for processing_lock
\* gets it when it is released again and again.
PollerRunFairSpec ==
    /\ PollerRunSpec
    /\ WF_vars(StopJoinLoopReturns)
    /\ SF_vars(StopAcquiresLock)
    /\ WF_vars(StopJoinProcessingReturns)
    /\ WF_vars(LoopChecksRunning)
    /\ SF_vars(LoopTick)
    /\ WF_vars(ProcessingWorkDone)
    /\ SF_vars(ProcessingFinally)
    /\ SF_vars(HandleTaskAssignmentEvents)

\* ------------------------------------------------------------------
\* DeadLetterQueue and ErrorHandler.retry_dead_letter_message with other
\* threads at work on the queue. dl.messages is DeadLetterQueue.messages;
\* an entry is the dead letter of message `id` with the _retry_count of
\* its message data.

\* The sequence without its element at position i (1-based): list.pop(i-1).
PopAt(seq, i) == [k \in 1..(Len(seq) - 1) |-> IF k < i THEN seq[k] ELSE seq[k + 1]]

\* add_message, under the queue's lock, from any thread.
DlAddMessage ==
    /\ dl.added < MaxDeliveries
    /\ dl' = [dl EXCEPT !.added = @ + 1,
                        !.messages = Append(@, [id |-> dl.added + 1, retry_count |-> EhIdle.max_retries + 1])]
    /\ UNCHANGED <<taskVars, svcVars, extVarsButMore, rmq, mon, mqm, conc, inprog, prio,
                   thr, rd, elog>>

\* clear(), under the queue's lock, from any thread.
DlClear ==
    /\ dl.messages # <<>>
    /\ dl' = [dl EXCEPT !.messages = <<>>]
    /\ UNCHANGED <<taskVars, svcVars, extVarsButMore, rmq, mon, mqm, conc, inprog, prio,
                   thr, rd, elog>>

\* retry_dead_letter_message(index, retry_callback) up to the call of the
\* callback: get_messages() copies the list under the lock; an index
\* outside the copy returns False; else the _retry_count of the message
\* data (the dict the stored dead letter holds) is set to 0 and the
\* callback is called, the lock not held.
RetryDeadLetterStarts ==
    /\ dl.pc = "idle"
    /\ dl.retries < MaxCalls
    /\ \E index \in 0..MaxDeliveries :
         LET messages == dl.messages
             valid == 0 <= index /\ index < Len(messages)
         IN dl' = IF valid
                  THEN [dl EXCEPT !.retries = @ + 1, !.pc = "callback",
                                  !.messages[index + 1].retry_count = 0,
                                  !.last = [NoRetry EXCEPT !.index = index, !.valid = TRUE,
                                                           !.retried = messages[index + 1].id,
                                                           !.invoked = 1]]
                  ELSE [dl EXCEPT !.retries = @ + 1,
                                  !.last = [NoRetry EXCEPT !.index = index, !.done = TRUE]]
    /\ UNCHANGED <<taskVars, svcVars, extVarsButMore, rmq, mon, mqm, conc, inprog, prio,
                   thr, rd, elog>>

\* The callback returns: under the lock, messages.pop(index) on the list
\* as it is now. An index the list no longer has raises IndexError, which
\* the except clause of the method turns into False.
RetryCallbackReturns ==
    /\ dl.pc = "callback"
    /\ LET i == dl.last.index + 1
       IN dl' = IF i <= Len(dl.messages)
                THEN [dl EXCEPT !.pc = "idle", !.messages = PopAt(@, i),
                                !.last = [@ EXCEPT !.callback_returned = TRUE, !.done = TRUE,
                                                   !.result = TRUE,
                                                   !.removed = dl.messages[i].id]]
                ELSE [dl EXCEPT !.pc = "idle",
                                !.last = [@ EXCEPT !.callback_returned = TRUE, !.done = TRUE,
                                                   !.result = FALSE]]
    /\ UNCHANGED <<taskVars, svcVars, extVarsButMore, rmq, mon, mqm, conc, inprog, prio,
                   thr, rd, elog>>

\* The callback raises: logged, False.
RetryCallbackRaises ==
    /\ dl.pc = "callback"
    /\ dl' = [dl EXCEPT !.pc = "idle", !.last = [@ EXCEPT !.done = TRUE, !.result = FALSE]]
    /\ UNCHANGED <<taskVars, svcVars, extVarsButMore, rmq, mon, mqm, conc, inprog, prio,
                   thr, rd, elog>>

DeadLetterInit ==
    /\ TaskIdle
    /\ SvcInit
    /\ rt = RtIdle
    /\ poll = PollIdle
    /\ scan = ScanIdle
    /\ eh = EhIdle
    /\ broker = BrokerIdle
    /\ rmq = RmqIdle
    /\ mon = MonIdle
    /\ mqm = MqmIdle
    /\ conc = ConcIdle
    /\ inprog = InprogIdle
    /\ prio = PrioIdle
    /\ thr = ThrIdle
    /\ rd = RdIdle
    /\ elog = ElogIdle
    /\ dl = DlIdle

DeadLetterNext ==
    \/ DlAddMessage
    \/ DlClear
    \/ RetryDeadLetterStarts
    \/ RetryCallbackReturns
    \/ RetryCallbackRaises

DeadLetterSpec == DeadLetterInit /\ [][DeadLetterNext]_vars

\* ------------------------------------------------------------------
\* What DeadLetterQueue.get_messages, EventMonitor.get_workflow_status and
\* EventMonitor.get_active_workflows hand out. rd.objs are the dicts that
\* exist (a dead letter with the _retry_count of its message data, or a
\* workflow with its status), numbered in order of creation; rd.stored is
\* the container of the store as the sequence of the dicts it refers to;
\* rd.ret.ids is what the returned value refers to.

\* The contents a container shows: its dicts, looked up.
Contents(objs, ids) == [k \in DOMAIN ids |-> objs[ids[k]]]

\* self.messages.copy(): a new list of the same dicts.
get_messages(stored) == stored

\* self.active_workflows.get(correlation_id): the stored dict itself.
get_workflow_status(stored, k) == << stored[k] >>

\* {cid: workflow for ... if workflow["status"] == "active"}: a new dict of
\* the same workflow dicts.
get_active_workflows(objs, stored) ==
    LET active(id) == objs[id].status = "active"
    IN SelectSeq(stored, active)

\* add_message, or register_event with a new correlation id: a new dict
\* enters the store.
RdStoreAdds ==
    /\ Len(rd.objs) < MaxObjects
    /\ LET fresh == IF rd.store = "dead_letter"
                    THEN [status |-> "-", retry_count |-> EhIdle.max_retries + 1]
                    ELSE [status |-> "active", retry_count |-> 0]
           after == [rd EXCEPT !.objs = Append(@, fresh),
                               !.stored = Append(@, Len(rd.objs) + 1)]
       IN rd' = [after EXCEPT !.returned_changed =
                     @ \/ Contents(after.objs, rd.ret.ids) # Contents(rd.objs, rd.ret.ids)]
    /\ UNCHANGED <<taskVars, svcVars, extVarsButMore, rmq, mon, mqm, conc, inprog, prio,
                   thr, dl, elog>>

\* A later write of the store to a dict it holds: retry_dead_letter_message
\* sets _retry_count of the message data to 0; register_event of a
\* completion event sets workflow["status"] = "completed".
RdStoreWrites ==
    /\ \E k \in DOMAIN rd.stored :
         LET id == rd.stored[k]
             after == IF rd.store = "dead_letter"
                      THEN [rd EXCEPT !.objs[id].retry_count = 0]
                      ELSE [rd EXCEPT !.objs[id].status = "completed"]
         IN /\ after.objs # rd.objs
            /\ rd' = [after EXCEPT !.returned_changed =
                          @ \/ Contents(after.objs, rd.ret.ids) # Contents(rd.objs, rd.ret.ids)]
    /\ UNCHANGED <<taskVars, svcVars, extVarsButMore, rmq, mon, mqm, conc, inprog, prio,
                   thr, dl, elog>>

\* One of the three getters is called.
RdGet ==
    /\ rd.stored # <<>>
    /\ \/ /\ rd.store = "dead_letter"
          /\ rd' = [rd EXCEPT !.ret = [op |-> "get_messages", ids |-> get_messages(rd.stored)],
                              !.stored_changed = FALSE, !.returned_changed = FALSE]
       \/ /\ rd.store = "workflows"
          /\ \E k \in DOMAIN rd.stored :
               rd' = [rd EXCEPT !.ret = [op |-> "get_workflow_status",
                                         ids |-> get_workflow_status(rd.stored, k)],
                                !.stored_changed = FALSE, !.returned_changed = FALSE]
       \/ /\ rd.store = "workflows"
          /\ rd' = [rd EXCEPT !.ret = [op |-> "get_active_workflows",
                                       ids |-> get_active_workflows(rd.objs, rd.stored)],
                              !.stored_changed = FALSE, !.returned_changed = FALSE]
    /\ UNCHANGED <<taskVars, svcVars, extVarsButMore, rmq, mon, mqm, conc, inprog, prio,
                   thr, dl, elog>>

\* The caller removes an element from the list or dict it was given by
\* get_messages or get_active_workflows.
CallerRemovesElement ==
    /\ rd.ret.op \in {"get_messages", "get_active_workflows"}
    /\ rd.ret.ids # <<>>
    /\ LET after == [rd EXCEPT !.ret.ids = Tail(@)]
       IN rd' = [after EXCEPT !.stored_changed =
                     @ \/ Contents(after.objs, after.stored) # Contents(rd.objs, rd.stored)]
    /\ UNCHANGED <<taskVars, svcVars, extVarsButMore, rmq, mon, mqm, conc, inprog, prio,
                   thr, dl, elog>>

\* The caller assigns to a key of a dict it was given: the workflow
\* returned by get_workflow_status, or an element of the returned list or
\* dict.
CallerAssignsKey ==
    /\ rd.ret.op # None
    /\ \E k \in DOMAIN rd.ret.ids :
         LET id == rd.ret.ids[k]
             after == IF rd.store = "dead_letter"
                      THEN [rd EXCEPT !.objs[id].retry_count = 1]
                      ELSE [rd EXCEPT !.objs[id].status = "edited"]
         IN /\ after.objs # rd.objs
            /\ rd' = [after EXCEPT !.stored_changed =
                          @ \/ Contents(after.objs, after.stored) # Contents(rd.objs, rd.stored)]
    /\ UNCHANGED <<taskVars, svcVars, extVarsButMore, rmq, mon, mqm, conc, inprog, prio,
                   thr, dl, elog>>

ReturnedInit ==
    /\ TaskIdle
    /\ SvcInit
    /\ rt = RtIdle
    /\ poll = PollIdle
    /\ scan = ScanIdle
    /\ eh = EhIdle
    /\ broker = BrokerIdle
    /\ rmq = RmqIdle
    /\ mon = MonIdle
    /\ mqm = MqmIdle
    /\ conc = ConcIdle
    /\ inprog = InprogIdle
    /\ prio = PrioIdle
    /\ thr = ThrIdle
    /\ dl = DlIdle
    /\ elog = ElogIdle
    /\ \E store \in {"dead_letter", "workflows"} : rd = [RdIdle EXCEPT !.store = store]

ReturnedNext ==
    \/ RdStoreAdds
    \/ RdStoreWrites
    \/ RdGet
    \/ CallerRemovesElement
    \/ CallerAssignsKey

ReturnedSpec == ReturnedInit /\ [][ReturnedNext]_vars

\* ------------------------------------------------------------------
\* EventLogger: the in-memory log. An entry is numbered in logging order.

\* Python's lst[-n:] for n >= 0: the slice starts at index -n, which for
\* n = 0 is index 0.
LastSlice(lst, n) ==
    LET start == IF n = 0 THEN 0
                 ELSE IF Len(lst) - n < 0 THEN 0 ELSE Len(lst) - n
    IN SubSeq(lst, start + 1, Len(lst))

\* _store_entry: append, then trim when the list is longer than
\* max_memory_entries.
_store_entry(logger, entry) ==
    LET appended == Append(logger.log_entries, entry)
    IN [logger EXCEPT !.logged = @ + 1,
                      !.log_entries = IF Len(appended) > logger.max_memory_entries
                                      THEN LastSlice(appended, logger.max_memory_entries)
                                      ELSE appended]

LogEvent ==
    /\ elog.logged < MaxLogged
    /\ elog' = _store_entry(elog, [n |-> elog.logged + 1, is_event |-> TRUE])
    /\ UNCHANGED <<taskVars, svcVars, extVarsButMore, rmq, mon, mqm, conc, inprog, prio,
                   thr, dl, rd>>

LogCommand ==
    /\ elog.logged < MaxLogged
    /\ elog' = _store_entry(elog, [n |-> elog.logged + 1, is_event |-> FALSE])
    /\ UNCHANGED <<taskVars, svcVars, extVarsButMore, rmq, mon, mqm, conc, inprog, prio,
                   thr, dl, rd>>

EventLoggerInit ==
    /\ TaskIdle
    /\ SvcInit
    /\ rt = RtIdle
    /\ poll = PollIdle
    /\ scan = ScanIdle
    /\ eh = EhIdle
    /\ broker = BrokerIdle
    /\ rmq = RmqIdle
    /\ mon = MonIdle
    /\ mqm = MqmIdle
    /\ conc = ConcIdle
    /\ inprog = InprogIdle
    /\ prio = PrioIdle
    /\ thr = ThrIdle
    /\ dl = DlIdle
    /\ rd = RdIdle
    /\ \E max_memory_entries \in 0..MaxMemoryEntries :
         elog = [ElogIdle EXCEPT !.max_memory_entries = max_memory_entries]

EventLoggerNext ==
    \/ LogEvent
    \/ LogCommand

EventLoggerSpec == EventLoggerInit /\ [][EventLoggerNext]_vars

ServiceNext ==
    \/ CreateTask
    \/ AssignTask
    \/ UpdateTaskStatus
    \/ CompleteTask
    \/ CancelTask
    \/ GetReturns
    \/ GetRaises
    \/ SaveReturns
    \/ SaveRaises
    \/ PublishReturns
    \/ PublishRaises
    \/ Return

ServiceSpec == ServiceInit /\ [][ServiceNext]_vars

Init ==
    /\ now = 0
    /\ \/ \E s \in TaskStatus, a \in {None, "agent-1"}, ids \in {<<>>, <<"a1">>}, is_new \in BOOLEAN :
             task = Task__init__(s, a, ids, 0, 0, is_new)
       \/ \E s \in TaskStatus, a \in {None, "agent-1"} :
             task = DomainTask__init__(s, a)
    /\ last = [op |-> "__init__", arg |-> NoArg, raised |-> FALSE, pre |-> task]
    /\ SvcInit
    /\ ExtInit

Next ==
    \/ AssignTo
    \/ ChangeStatus
    \/ Complete
    \/ Cancel
    \/ StartProgress
    \/ Block
    \/ ReadyForReview
    \/ ClearEvents
    \/ DomainAssignTo
    \/ DomainChangeStatus
    \/ DomainComplete
    \/ DomainCancel
    \/ DomainStartProgress
    \/ DomainBlock
    \/ DomainReadyForReview

Spec == Init /\ [][Next]_vars

----------------------------------------------------------------------------
(* Properties of the Task aggregate                                        *)

\* The status table of the specification (section 4.1).
StatusTable ==
    { <<CREATED, ASSIGNED>>, <<CREATED, CANCELED>>,
      <<ASSIGNED, IN_PROGRESS>>, <<ASSIGNED, BLOCKED>>, <<ASSIGNED, CANCELED>>,
      <<IN_PROGRESS, REVIEW>>, <<IN_PROGRESS, BLOCKED>>, <<IN_PROGRESS, CANCELED>>,
      <<BLOCKED, IN_PROGRESS>>, <<BLOCKED, CANCELED>>,
      <<REVIEW, IN_PROGRESS>>, <<REVIEW, COMPLETED>>, <<REVIEW, CANCELED>> }

Terminal == {COMPLETED, CANCELED}

\* The events the last operation appended to pending_events (the empty
\* sequence when it appended none).
Appended ==
    IF Len(task.pending_events) >= Len(last.pre.pending_events)
    THEN SubSeq(task.pending_events, Len(last.pre.pending_events) + 1, Len(task.pending_events))
    ELSE <<>>

KeptPending ==
    /\ Len(task.pending_events) >= Len(last.pre.pending_events)
    /\ SubSeq(task.pending_events, 1, Len(last.pre.pending_events)) = last.pre.pending_events

IsTaskAssigned(e) == e.type = "TaskAssigned"

IsTaskStatusChanged(e, previous_status, new_status) ==
    /\ e.type = "TaskStatusChanged"
    /\ e.previous_status = previous_status
    /\ e.new_status = new_status

IsTaskCanceled(e) == e.type = "TaskCanceled"

\* C1: change_status(S') on a task in status S, S # S', succeeds and sets the
\* status to S' iff (S, S') is an edge of the status table; otherwise it
\* raises and leaves status and pending events unchanged.
C1_ChangeStatusFollowsTable ==
    (last.op = "change_status" /\ last.arg # last.pre.status) =>
        IF <<last.pre.status, last.arg>> \in StatusTable
        THEN ~last.raised /\ task.status = last.arg
        ELSE /\ last.raised
             /\ task.status = last.pre.status
             /\ task.pending_events = last.pre.pending_events

\* C1 witness: change_status(review) on a created task was rejected.
C1_Witness ==
    /\ last.op = "change_status"
    /\ last.pre.status = CREATED
    /\ last.arg = REVIEW
    /\ last.raised
    /\ task.impl = EntityTask

\* C2: once the status is completed or canceled, no domain operation
\* changes it again.
C2_TerminalStatusIsFinal ==
    last.pre.status \in Terminal => task.status = last.pre.status

\* C3: every change of status goes along an edge of the status table, and
\* complete() succeeds only from review, failing and leaving the status
\* unchanged from any other status.
C3_StatusChangesFollowTable ==
    /\ task.status # last.pre.status => <<last.pre.status, task.status>> \in StatusTable
    /\ (last.op = "complete" /\ last.pre.status # REVIEW) =>
           (last.raised /\ task.status = last.pre.status)

\* C4: assign_to on a created task sets the assignee, moves the status to
\* assigned and appends exactly TaskAssigned then
\* TaskStatusChanged(created->assigned); in any other status it appends only
\* TaskAssigned and leaves the status unchanged.
C4_AssignToEvents ==
    last.op = "assign_to" =>
        /\ ~last.raised
        /\ task.assignee = last.arg
        /\ KeptPending
        /\ IF last.pre.status = CREATED
           THEN /\ task.status = ASSIGNED
                /\ Len(Appended) = 2
                /\ IsTaskAssigned(Appended[1])
                /\ IsTaskStatusChanged(Appended[2], CREATED, ASSIGNED)
           ELSE /\ task.status = last.pre.status
                /\ Len(Appended) = 1
                /\ IsTaskAssigned(Appended[1])

\* C6: cancel() on a completed task fails and leaves the status completed
\* and the pending events unchanged.
C6_CancelCompletedFails ==
    (last.op = "cancel" /\ last.pre.status = COMPLETED) =>
        /\ last.raised
        /\ task.status = COMPLETED
        /\ task.pending_events = last.pre.pending_events

\* C6 witness: cancel() was called on a completed task holding pending events.
C6_Witness ==
    /\ last.op = "cancel"
    /\ last.pre.status = COMPLETED
    /\ last.raised
    /\ last.pre.pending_events # <<>>

\* C7: cancel() on a task in a non-terminal status sets the status to
\* canceled and appends exactly TaskStatusChanged(previous->canceled)
\* followed by TaskCanceled.
C7_CancelEvents ==
    (last.op = "cancel" /\ last.pre.status \notin Terminal) =>
        /\ ~last.raised
        /\ task.status = CANCELED
        /\ KeptPending
        /\ Len(Appended) = 2
        /\ IsTaskStatusChanged(Appended[1], last.pre.status, CANCELED)
        /\ IsTaskCanceled(Appended[2])

\* The elements of a sequence.
Elems(seq) == {seq[i] : i \in 1..Len(seq)}

\* C10: artifact_ids after any domain operation, successful or failed,
\* contains every element it contained before, and is not shorter.
C10_ArtifactsNeverShrink ==
    /\ Elems(last.pre.artifact_ids) \subseteq Elems(task.artifact_ids)
    /\ Len(task.artifact_ids) >= Len(last.pre.artifact_ids)

\* C10 witness: ready_for_review extended a non-empty artifact list.
C10_Witness ==
    /\ last.op = "ready_for_review"
    /\ ~last.raised
    /\ last.pre.artifact_ids = <<"a1">>
    /\ task.artifact_ids = <<"a1", "a2">>

\* The last call was a domain operation that returned and changed the task.
Mutated ==
    /\ last.op \notin {"__init__", "clear_events"}
    /\ ~last.raised
    /\ task # last.pre

\* C11 (as claimed): updated_at >= created_at always, and after each
\* successful mutating operation updated_at is strictly greater than before.
C11_UpdatedAtStrictlyIncreases ==
    /\ task.updated_at >= task.created_at
    /\ Mutated => task.updated_at > last.pre.updated_at

\* C11 (amended): updated_at >= created_at always, and a successful mutating
\* operation sets updated_at to its reading of the clock, which is never
\* below the value before (and may equal it when the clock has not advanced
\* between the two readings).
C11_UpdatedAtNeverDecreases ==
    /\ task.updated_at >= task.created_at
    /\ Mutated => /\ task.updated_at >= last.pre.updated_at
                  /\ task.updated_at = now

\* C11 witness: a status change read a later instant than the one before.
C11_Witness ==
    /\ last.op = "change_status"
    /\ Mutated
    /\ task.impl = EntityTask
    /\ task.updated_at > last.pre.updated_at

\* The fields of a Task other than its pending events.
ObservableFields ==
    {"task_id", "title", "description", "priority", "status", "created_by", "assignee",
     "due_date", "requirements_ids", "parent_task_id", "tags", "artifact_ids",
     "created_at", "updated_at"}

\* C12: Task.from_dict(t.to_dict()) equals t in every observable field and
\* has no pending events, whatever events t had pending.
C12_RoundTrip ==
    rt.pc = "back" =>
        /\ \A f \in ObservableFields : rt.back[f] = rt.t[f]
        /\ rt.back.pending_events = <<>>

\* C12 witness: a task with pending events, a due date, tags and artifacts
\* has been written and read back.
C12_Witness ==
    /\ rt.pc = "back"
    /\ Len(rt.t.pending_events) = 2
    /\ rt.t.due_date # NoneDate
    /\ rt.t.artifact_ids # <<>>
    /\ rt.t.tags # <<>>

----------------------------------------------------------------------------
(* Properties of the TaskService                                           *)

\* The events published since the current call started.
NewOnBus == SubSeq(bus, svc.bus0 + 1, Len(bus))

Steps(step) == {i \in 1..Len(calls) : calls[i].step = step}

\* The current call has neither saved nor published anything.
WroteNothing ==
    /\ Steps("save") = {}
    /\ Steps("publish_event") = {}
    /\ repo = svc.repo0
    /\ NewOnBus = <<>>

\* C5: after create, assign, in_progress, review, complete through the
\* service the stored status is completed and the bus has seen TaskCreated,
\* TaskAssigned, TaskStatusChanged(created->assigned),
\* TaskStatusChanged(assigned->in_progress),
\* TaskStatusChanged(in_progress->review),
\* TaskStatusChanged(review->completed), TaskCompleted, in this order.
C5_LifecycleEvents ==
    (script = Len(Scenario) /\ svc.pc = "idle") =>
        /\ repo.doc.status = COMPLETED
        /\ Len(bus) = 7
        /\ bus[1].type = "TaskCreated"
        /\ IsTaskAssigned(bus[2])
        /\ IsTaskStatusChanged(bus[3], CREATED, ASSIGNED)
        /\ IsTaskStatusChanged(bus[4], ASSIGNED, IN_PROGRESS)
        /\ IsTaskStatusChanged(bus[5], IN_PROGRESS, REVIEW)
        /\ IsTaskStatusChanged(bus[6], REVIEW, COMPLETED)
        /\ bus[7].type = "TaskCompleted"

\* The task of the current call was not found, or the call asks for what the
\* status machine forbids: a status that is no edge from the current one,
\* canceling a completed task, completing a canceled one.
MustFail ==
    /\ svc.op \in MutatingOps
    /\ svc.pc \notin {"idle", "get"}
    /\ svc.error # "get"
    /\ \/ ~svc.repo0.exists
       \/ /\ svc.op = "update_task_status"
          /\ svc.arg # svc.repo0.doc.status
          /\ <<svc.repo0.doc.status, svc.arg>> \notin StatusTable
       \/ svc.op = "cancel_task" /\ svc.repo0.doc.status = COMPLETED
       \/ svc.op = "complete_task" /\ svc.repo0.doc.status = CANCELED

\* C8: a mutating service call whose task is not found or whose domain
\* operation rejects it fails (the error reaches the caller), and has called
\* neither repository.save nor publish_event.
C8_FailedCallWritesNothing ==
    /\ MustFail => (svc.pc = "failed" /\ svc.error \in {"not_found", "domain"})
    /\ (svc.op \in MutatingOps /\ svc.pc = "failed" /\ svc.error \in {"not_found", "domain"})
          => WroteNothing

\* C8 witness: update_task_status to a status that is no edge was rejected.
C8_Witness ==
    /\ svc.pc = "failed"
    /\ svc.op = "update_task_status"
    /\ svc.error = "domain"
    /\ svc.repo0.doc.status = ASSIGNED
    /\ svc.arg = REVIEW

StepRank(step) ==
    CASE step = "get_by_id"     -> 1
      [] step = "mutate"        -> 2
      [] step = "save"          -> 3
      [] step = "publish_event" -> 4
      [] step = "clear_events"  -> 5

IsPrefix(p, q) == Len(p) <= Len(q) /\ SubSeq(q, 1, Len(p)) = p

\* C9: the steps of a service call come in the order load, mutate, save,
\* publish, clear; an event is published only once save has stored the
\* mutated task (nothing is published when save raises); the events go out
\* in the order they were appended; and a call that returns leaves the
\* task's pending events empty, all of them published.
C9_LoadMutateSavePublishClear ==
    /\ \A i, j \in 1..Len(calls) :
          i < j => /\ StepRank(calls[i].step) <= StepRank(calls[j].step)
                   /\ StepRank(calls[i].step) = StepRank(calls[j].step)
                         => calls[i].step = "publish_event"
    /\ (svc.pc # "idle" /\ Steps("publish_event") # {}) =>
          /\ Steps("save") # {}
          /\ repo = [exists |-> TRUE, doc |-> to_dict(svc.mutated)]
    /\ (svc.pc = "failed" /\ svc.error = "save") => NewOnBus = <<>>
    /\ svc.pc # "idle" => IsPrefix(NewOnBus, svc.mutated.pending_events)
    /\ svc.pc # "idle" =>
          [i \in 1..Len(NewOnBus) |-> NewOnBus[i]] =
          [i \in 1..Len(NewOnBus) |-> calls[CHOOSE k \in Steps("publish_event") :
                                              Cardinality({m \in Steps("publish_event") : m <= k}) = i].event]
    /\ svc.pc = "returned" =>
          /\ NewOnBus = svc.mutated.pending_events
          /\ svc.task.pending_events = <<>>
          /\ calls[Len(calls)].step = "clear_events"

\* C9 witness: assign_task on a created task returned after publishing the
\* two events assign_to appended.
C9_Witness ==
    /\ svc.pc = "returned"
    /\ svc.op = "assign_task"
    /\ Len(svc.mutated.pending_events) = 2
    /\ Len(NewOnBus) = 2

----------------------------------------------------------------------------
(* Properties of the polling services                                      *)

\* The agent processings started and not finished.
InFlight ==
    poll.in_flight \cup (IF poll.currently_processing_task = None
                         THEN {} ELSE {poll.currently_processing_task})

\* C13: one polling service never has more than one agent processing in
\* flight: no tick starts the processing of a task while an earlier one has
\* not finished.
C13_SingleFlight == Cardinality(InFlight) <= 1

\* Type and new status of the messages published, the task queries left
\* out.
Published(out) ==
    LET msgs == SelectSeq(out, LAMBDA m : m.type # "QUERY_TASKS")
    IN [i \in 1..Len(msgs) |-> <<msgs[i].kind, msgs[i].type, msgs[i].payload.new_status>>]

\* C14: a poll tick that finds a request_validation task assigned to the
\* pool, with an agent verdict needs_clarification = false, publishes
\* UpdateTaskStatus(prd_development), ProductRequirementCreated,
\* LinkRequirementToTask, UpdateTaskStatus(prd_validation),
\* HumanValidationRequested, in this order.
C14_PollTickEmitsPrdSequence ==
    (poll.impl = "application" /\ poll.tick.done /\ poll.tick.polled
        /\ ~poll.tick.needs_clarification) =>
        Published(poll.out) =
            << <<"command", "UPDATE_TASK_STATUS", PRD_DEVELOPMENT>>,
               <<"event", "PRODUCT_REQUIREMENT_CREATED", None>>,
               <<"command", "LINK_REQUIREMENT_TO_TASK", None>>,
               <<"command", "UPDATE_TASK_STATUS", PRD_VALIDATION>>,
               <<"event", "HUMAN_VALIDATION_REQUESTED", None>> >>

----------------------------------------------------------------------------
(* Properties of the scanning service                                      *)

\* The positions of scan.out holding a message of this kind and type.
ScanPositions(kind, type) ==
    {i \in 1..Len(scan.out) : scan.out[i].kind = kind /\ scan.out[i].type = type}

\* C15: a scan tick over three new tasks publishes exactly one
\* TaskScanInitiated, first, and exactly one TaskScanCompleted, last, and
\* between them three UpdateTaskStatus(request_validation) and three
\* AssignTask(product_manager_pool), each of these messages with the
\* tick's scan_id as correlation id.
C15_ScanPromotesNewTasks ==
    scan.tick.done =>
        LET claimed ==
              ScanPositions("event", "TASK_SCAN_INITIATED")
              \cup ScanPositions("event", "TASK_SCAN_COMPLETED")
              \cup ScanPositions("command", "UPDATE_TASK_STATUS")
              \cup ScanPositions("command", "ASSIGN_TASK")
        IN /\ ScanPositions("event", "TASK_SCAN_INITIATED") = {1}
           /\ ScanPositions("event", "TASK_SCAN_COMPLETED") = {Len(scan.out)}
           /\ Cardinality({i \in ScanPositions("command", "UPDATE_TASK_STATUS") :
                              scan.out[i].payload.new_status = REQUEST_VALIDATION}) = 3
           /\ Cardinality({i \in ScanPositions("command", "ASSIGN_TASK") :
                              scan.out[i].payload.agent_id = "product_manager_pool"}) = 3
           /\ \A i \in claimed : scan.out[i].correlation_id = scan.scan_id

\* The handler is used as the retry scenario has it: the callback hands
\* each of its failures to handle_error, the message was delivered once,
\* and nothing else called the handler.
C16Case ==
    /\ eh.wrapper
    /\ eh.deliveries = 1
    /\ eh.calls = 0
    /\ eh.admin = 0

AllFailed(inv) == \A i \in DOMAIN inv : inv[i].outcome # Returned

\* C16: with max_retries = 3, a callback failing with retryable errors is
\* invoked at most four times; once it succeeds nothing more is pending and
\* the dead-letter store is empty (so success on the third invocation means
\* three deliveries in total); while it has failed fewer than four times one
\* retry is pending and the store is empty; after four failures there were
\* exactly three redeliveries, none is pending, and the store holds exactly
\* one entry whose original_error is the string of the last error.
C16_RetryThenDeadLetter ==
    C16Case =>
        LET inv == eh.invocations
            n == Len(inv)
        IN /\ n <= eh.max_retries + 1
           /\ \A i \in DOMAIN inv :
                inv[i].outcome = Returned =>
                    i = n /\ eh.threads = {} /\ eh.dead_letter_queue = <<>>
           /\ (AllFailed(inv) /\ n <= eh.max_retries) =>
                Cardinality(eh.threads) = 1 /\ eh.dead_letter_queue = <<>>
           /\ (AllFailed(inv) /\ n = eh.max_retries + 1) =>
                /\ eh.threads = {}
                /\ Cardinality({i \in DOMAIN inv : inv[i].by = "retry"}) = eh.max_retries
                /\ Len(eh.dead_letter_queue) = 1
                /\ eh.dead_letter_queue[1].original_error = inv[n].outcome.msg

\* Four failures, the last one with another error string than the one
\* before, and the message dead-lettered.
C16_Witness ==
    /\ C16Case
    /\ Len(eh.invocations) = 4
    /\ AllFailed(eh.invocations)
    /\ eh.invocations[3].outcome # eh.invocations[4].outcome
    /\ Len(eh.dead_letter_queue) = 1

\* C17: a retry that was pending when handle_error scheduled a newer one
\* for the message never invokes the callback.
C17_SupersededRetryNeverRuns ==
    \A i \in DOMAIN eh.invocations :
        eh.invocations[i].by = "retry" => eh.invocations[i].tid \notin eh.superseded

\* The classes the claim calls terminal.
C18Terminal(error) ==
    \E c \in {"ValueError", "KeyError", "TypeError", "AttributeError", "JSONDecodeError"} :
        c \in Mro(error.cls)

\* C18: a handle_error call on a terminal error appends exactly one
\* dead-letter entry and schedules no retry, whatever the retry count; a
\* call on any other error with retry_count < max_retries schedules exactly
\* one retry, increments retry_count by one and appends nothing.
C18_TerminalDeadLettersElseRetries ==
    eh.last.called =>
        /\ C18Terminal(eh.last.error) =>
             /\ Len(eh.last.appended) = 1
             /\ eh.last.scheduled = {}
        /\ (~C18Terminal(eh.last.error) /\ eh.last.pre_count < eh.max_retries) =>
             /\ Cardinality(eh.last.scheduled) = 1
             /\ eh.last.post_count = eh.last.pre_count + 1
             /\ eh.last.appended = <<>>

\* A lookup error handled for a message that was already retried.
C18_Witness ==
    /\ eh.last.called
    /\ eh.last.error.cls = "KeyError"
    /\ eh.last.pre_count >= 1
    /\ Len(eh.last.appended) = 1
    /\ eh.last.appended[1].original_error = eh.last.error.msg

\* How often callback cb was invoked for the n-th publish, and how often it
\* was registered for the type of that publish when it was made.
TimesInvoked(cb, n) ==
    Cardinality({i \in DOMAIN broker.delivered :
                    broker.delivered[i].callback = cb /\ broker.delivered[i].id = n})

TimesSubscribed(cb, n) ==
    Cardinality({i \in DOMAIN broker.published[n].subscribers :
                    broker.published[n].subscribers[i] = cb})

\* Each callback receives the messages of one kind in the order they were
\* published.
FifoPerSubscriber ==
    \A i, j \in DOMAIN broker.delivered :
        (/\ i < j
         /\ broker.delivered[i].callback = broker.delivered[j].callback
         /\ broker.delivered[i].kind = broker.delivered[j].kind)
            => broker.delivered[i].id <= broker.delivered[j].id

\* C19 as stated: on a connected broker each publish_event invokes every
\* callback subscribed to the event's type exactly once and no callback that
\* is not subscribed to it, and every subscriber receives the events in the
\* order they were published.
C19_EachSubscriberExactlyOnce ==
    /\ \A n \in DOMAIN broker.published, cb \in Callbacks :
         broker.published[n].kind = "event" =>
            TimesInvoked(cb, n) = IF TimesSubscribed(cb, n) > 0 THEN 1 ELSE 0
    /\ FifoPerSubscriber

\* C19, amended: each publish_event invokes a callback once for each time
\* it was subscribed to the event's type, with that event, and not at all
\* when it is subscribed to other types only; every subscriber receives the
\* events in the order they were published.
C19_OncePerSubscription ==
    /\ \A n \in DOMAIN broker.published, cb \in Callbacks :
         broker.published[n].kind = "event" =>
            /\ TimesInvoked(cb, n) = TimesSubscribed(cb, n)
            /\ \A i \in DOMAIN broker.delivered :
                 broker.delivered[i].id = n =>
                    /\ broker.delivered[i].kind = "event"
                    /\ broker.delivered[i].type = broker.published[n].type
    /\ FifoPerSubscriber

\* Two events of one type published to two subscribers of it, while a
\* callback is subscribed to another type.
C19_Witness ==
    /\ Len(broker.published) = 2
    /\ broker.published[1].kind = "event"
    /\ broker.published[2] = broker.published[1]
    /\ Len(broker.published[1].subscribers) = 2
    /\ broker.published[1].subscribers[1] # broker.published[1].subscribers[2]
    /\ \E t \in BrokerEventTypes :
         t # broker.published[1].type /\ broker.event_subscribers[t] # <<>>
    /\ Len(broker.delivered) = 4

BrokerCalls ==
    {"publish_event", "subscribe_to_event", "publish_command", "subscribe_to_command"}

\* C20: on a broker that is not connected, publish_event,
\* subscribe_to_event, publish_command and subscribe_to_command raise,
\* invoke no subscriber and leave both subscriber tables as they were.
C20_NotConnectedRaises ==
    (broker.last.op \in BrokerCalls /\ ~broker.last.connected) =>
        /\ broker.last.raised
        /\ broker.last.invoked = <<>>
        /\ BrokerTables(broker) = broker.last.before

\* A subscription attempted after a disconnect, with subscribers registered.
C20_Witness ==
    /\ broker.last.op = "subscribe_to_event"
    /\ ~broker.last.connected
    /\ broker.last.raised
    /\ broker.last.before # NoTables

\* C21: a delivery is acknowledged only if every callback invoked for it
\* returned; when a callback raised, the delivery is refused (requeued or
\* dropped for dead-lettering) instead.
C21_AckOnlyAfterCallbacksReturn ==
    \A i \in DOMAIN rmq.handled :
        LET d == rmq.handled[i]
            raised == \E k \in DOMAIN d.outcomes : d.outcomes[k] = "raised"
        IN /\ d.sent = "ack" => ~raised
           /\ raised => d.sent \in {"nack", "nack_requeue"}

\* The alerts check k raised for workflow cid to the r-th registered
\* callback.
AlertsOf(k, cid, r) ==
    Cardinality({i \in DOMAIN mon.alerts :
                    /\ mon.alerts[i].check = k
                    /\ mon.alerts[i].correlation_id = cid
                    /\ mon.alerts[i].registration = r})

\* Workflow cid was open and older than the threshold when check k looked.
StalledAt(k, cid) ==
    LET c == mon.checks[k]
    IN /\ c.workflows[cid].status = "active"
       /\ c.at - c.workflows[cid].last_update_time > mon.alert_threshold_seconds

\* C22: every finished check raised, to every registered callback, exactly
\* one stalled_workflow alert for each workflow that was open and older than
\* the threshold and none for any other; checks are at least one period
\* apart; and no alert is raised for a workflow that a completion event has
\* closed.
C22_StalledAlertOncePerPeriod ==
    /\ \A k \in DOMAIN mon.checks, cid \in Cids, r \in 1..MaxCalls :
         (k < Len(mon.checks) \/ mon.pc = "sleep") =>
            AlertsOf(k, cid, r) =
                IF StalledAt(k, cid) /\ r <= mon.checks[k].callbacks THEN 1 ELSE 0
    /\ \A k \in DOMAIN mon.checks :
         k > 1 => mon.checks[k].at > mon.checks[k - 1].at
    /\ \A i \in DOMAIN mon.alerts : mon.alerts[i].status # "completed"

SuccessPathTypes ==
    {"PRODUCT_REQUIREMENT_CREATED", "LINK_REQUIREMENT_TO_TASK", "HUMAN_VALIDATION_REQUESTED"}

\* C23: when the agent raised while processing a task, the task received an
\* error comment, its status was not changed after the agent was invoked,
\* and no success-path message (ProductRequirementCreated,
\* LinkRequirementToTask, UpdateTaskStatus(prd_validation),
\* HumanValidationRequested) was emitted.
C23_AgentFailureHoldsTask ==
    \A i \in DOMAIN poll.processed :
        LET p == poll.processed[i]
        IN p.agent = "raises" =>
            /\ p.commented
            /\ ~p.status_changed
            /\ \A k \in DOMAIN p.out :
                 /\ p.out[k].type \notin SuccessPathTypes
                 /\ ~(p.out[k].type = "UPDATE_TASK_STATUS"
                      /\ p.out[k].payload.new_status = PRD_VALIDATION)

TaskScore(t) ==
    (CASE t.priority = CRITICAL -> 100 [] t.priority = HIGH -> 75
       [] t.priority = MEDIUM -> 50 [] t.priority = LOW -> 25)
    + (CASE t.status = BLOCKED -> 20 [] t.status = REVIEW -> 10 [] t.status = ASSIGNED -> 0)

\* a comes no later than b in the order the claim gives: higher score
\* first, equal scores by created_at ascending.
Before(a, b) ==
    \/ TaskScore(a) > TaskScore(b)
    \/ TaskScore(a) = TaskScore(b) /\ a.created_at <= b.created_at

IsPermutation(out, in) ==
    /\ Len(out) = Len(in)
    /\ \A id \in PollTaskIds :
         Cardinality({i \in DOMAIN out : out[i] = id})
           = Cardinality({i \in DOMAIN in : in[i] = id})

\* C24: prioritize_tasks returns a permutation of its input sorted by
\* priority_score + status_score descending, equal scores by created_at
\* ascending; get_next_task returns the first task of that order.
C24_PrioritizedByScoreThenAge ==
    /\ prio.pc = "prioritized" =>
         /\ IsPermutation(prio.prioritized, prio.ids)
         /\ \A i, j \in DOMAIN prio.prioritized :
              i < j => Before(prio.tasks[prio.prioritized[i]], prio.tasks[prio.prioritized[j]])
    /\ prio.pc = "next" =>
         /\ prio.next \in PollTaskIds
         /\ \A id \in PollTaskIds : Before(prio.tasks[prio.next], prio.tasks[id])

\* C25: when assign_task has returned for a task that was in status
\* created, save was called exactly once and exactly one event was
\* published, a TaskAssigned for that task and assignee, and the returned
\* task has status assigned.
C25_AssignTaskSavesOncePublishesOnce ==
    (svc.pc = "returned" /\ svc.op = "assign_task" /\ svc.repo0.doc.status = CREATED) =>
        /\ Cardinality(Steps("save")) = 1
        /\ Cardinality(Steps("publish_event")) = 1
        /\ \A k \in Steps("publish_event") : calls[k].event.type = "TaskAssigned"
        /\ svc.task.assignee = svc.arg
        /\ svc.task.status = ASSIGNED

MqTimes(seq, callback) == Cardinality({i \in DOMAIN seq : seq[i] = callback})

\* C26 as stated: with the interceptor installed, a publish delivers the
\* message to each subscriber of its type at most once, and exactly once
\* when no subscriber raises, whether or not registering with the monitor
\* raised.
C26_EachSubscriberAtMostOnce ==
    mqm.last.kind # "-" =>
        \A callback \in MqCallbacks :
            /\ MqTimes(mqm.last.invoked, callback) <= 1
            /\ (/\ MqTimes(mqm.last.subscribers, callback) > 0
                /\ \A i \in DOMAIN mqm.last.subscribers :
                     ~CallbackRaises(mqm.last.subscribers[i]))
                  => MqTimes(mqm.last.invoked, callback) = 1

\* C26, amended: with the interceptor installed, a publish invokes the
\* subscriptions of its type once each, in subscription order (a callback
\* subscribed twice is invoked twice), whether or not registering with the
\* monitor raised and whether or not subscribers raise; the publish itself
\* does not raise.
C26_OncePerSubscription ==
    mqm.last.kind # "-" =>
        /\ mqm.last.invoked = mqm.last.subscribers
        /\ ~mqm.last.raised
        /\ mqm.last.registered = ~mqm.last.monitor_raised

\* Registering with the monitor raised and a raising subscriber came
\* before a returning one.
C26_Witness ==
    /\ mqm.last.kind = "event"
    /\ mqm.last.monitor_raised
    /\ mqm.last.subscribers = <<"failing_handler", "handler">>
    /\ mqm.last.invoked = <<"failing_handler", "handler">>

StatusEdge(from, to) ==
    _is_valid_status_transition([status |-> from], to)

\* C27: concurrent mutating calls on one task are serialized: every status
\* persisted follows the one it replaces by an edge of the status table, a
\* persisted completed or canceled is never replaced by another status, and
\* no successful change is lost (every save writes a task that was loaded
\* from the document it replaces).
C27_ConcurrentCallsSerialized ==
    \A i \in DOMAIN conc.persisted :
        LET p == conc.persisted[i]
        IN /\ StatusEdge(p.replaced, p.status)
           /\ p.replaced \in {COMPLETED, CANCELED} => p.status = p.replaced
           /\ p.loaded = p.replaced

\* The invocations in progress: publisher, position in the subscriber list.
InProgress ==
    {inv \in Publishers \X {1, 2} :
        /\ inv[2] \in DOMAIN inprog.pub[inv[1]].tasks
        /\ inprog.pub[inv[1]].tasks[inv[2]] = "in_progress"}

InvKind(inv) == inprog.pub[inv[1]].kind
InvCallback(inv) == inprog.subscribers[InvKind(inv)][inv[2]]

\* C28: a subscriber callback of the in-memory broker never has two
\* invocations in progress at the same time, also with concurrent
\* publishers; the consumer of a command type finishes one command before
\* it starts the next.
C28_OneInvocationAtATime ==
    \A a, b \in InProgress :
        (InvKind(a) = InvKind(b) /\ InvCallback(a) = InvCallback(b)) => a = b

\* C29: when a scan pass raised during a tick, the tick was not aborted:
\* all three passes ran and the tick's TaskScanCompleted was published; and
\* the loop goes on ticking while the service is running.
C29_PassFailureDoesNotAbortTick ==
    (scan.tick.done /\ scan.tick.raised) =>
        /\ scan.tick.passes = <<"new", "clarification", "validation">>
        /\ \E i \in DOMAIN scan.out :
             /\ scan.out[i].type = "TASK_SCAN_COMPLETED"
             /\ scan.out[i].payload.scan_id = scan.scan_id
        /\ (scan.running /\ scan.ticks < MaxTicks) => ENABLED ScanningLoop

\* The single-flight slot, once taken, is released.
SlotReleased ==
    [](poll.currently_processing_task # None => <>(poll.currently_processing_task = None))

\* A poll tick that finds the slot free after a release starts a task.
PollAfterReleaseStartsTask ==
    [][(PollingLoop /\ poll.currently_processing_task = None /\ poll.processed # <<>>)
          => poll'.currently_processing_task # None]_vars

\* C30: whenever the polling service has started processing a task, the
\* single-flight slot is eventually released, whatever the outcome and
\* also when stop() is called during processing; and after a release a
\* later poll tick starts a new task.
C30_SlotReleasedAndReusable ==
    SlotReleased /\ PollAfterReleaseStartsTask

\* C31: when stop() was called while a task was being processed and the
\* processing finished its work within the join timeout, stop() returned
\* only after the processing had terminated.
C31_StopWaitsForProcessing ==
    (thr.last_stop.returned /\ thr.last_stop.found_alive /\ thr.last_stop.work_done)
        => ~thr.last_stop.alive

\* C32: after any sequence of start() and stop(), at most one loop ticks
\* (no two loops have ticked since the latest start), and no loop ticks
\* after a stop() called on it has returned.
C32_OneLoopAndNoTickAfterStop ==
    /\ \A i \in DOMAIN thr.loops : ~thr.loops[i].late
    /\ \A i, j \in DOMAIN thr.loops :
         (i # j /\ thr.loops[i].ticked) => ~thr.loops[j].ticked

\* What a processing published after the status update to prd_development
\* that opens the processing of a task in request_validation.
AfterOpening(published) ==
    IF /\ published # <<>>
       /\ published[1].type = "UPDATE_TASK_STATUS"
       /\ published[1].payload.new_status = PRD_DEVELOPMENT
    THEN Tail(published)
    ELSE published

\* C33: with a verdict that has needs_clarification set, the processing
\* publishes, in this order, ADD_TASK_COMMENT carrying the verdict's
\* questions, UPDATE_TASK_STATUS to clarification_needed and
\* CLARIFICATION_REQUESTED, and none of PRODUCT_REQUIREMENT_CREATED,
\* LINK_REQUIREMENT_TO_TASK, UPDATE_TASK_STATUS to prd_validation,
\* HUMAN_VALIDATION_REQUESTED.
C33_ClarificationPath ==
    \A k \in DOMAIN poll.processed :
        poll.processed[k].agent = "clarification" =>
            LET published == poll.processed[k].published
                rest == AfterOpening(published)
            IN /\ Len(rest) = 3
               /\ rest[1].kind = "command" /\ rest[1].type = "ADD_TASK_COMMENT"
               /\ rest[1].payload.clarification_questions
                      = _simulate_product_manager_processing(TRUE).clarification_questions
               /\ rest[2].kind = "command" /\ rest[2].type = "UPDATE_TASK_STATUS"
               /\ rest[2].payload.new_status = CLARIFICATION_NEEDED
               /\ rest[3].kind = "event" /\ rest[3].type = "CLARIFICATION_REQUESTED"
               /\ \A i \in DOMAIN published :
                      /\ published[i].type \notin {"PRODUCT_REQUIREMENT_CREATED",
                             "LINK_REQUIREMENT_TO_TASK", "HUMAN_VALIDATION_REQUESTED"}
                      /\ published[i].payload.new_status # PRD_VALIDATION
                      /\ published[i].payload.task_id = poll.processed[k].task_id

C33_Witness ==
    \E k \in DOMAIN poll.processed :
        /\ poll.processed[k].agent = "clarification"
        /\ Len(poll.processed[k].published) = 4

\* C34: a retry_dead_letter_message with a valid index invokes the callback
\* once; it returns True exactly when the callback returned, and then the
\* entry removed is the retried one; when it returns False nothing was
\* removed.
C34_RetryRemovesTheRetriedEntry ==
    (dl.last.done /\ dl.last.valid) =>
        /\ dl.last.invoked = 1
        /\ dl.last.result = dl.last.callback_returned
        /\ dl.last.result => dl.last.removed = dl.last.retried
        /\ ~dl.last.result => dl.last.removed = None

\* C35: what get_messages, get_workflow_status and get_active_workflows
\* return is a copy: no change the caller makes to it changes what the
\* store holds, and no later write of the store changes it.
C35_GettersReturnCopies ==
    rd.ret.op # None => (~rd.stored_changed /\ ~rd.returned_changed)

\* C36: for every max_memory_entries >= 0 the in-memory log holds at most
\* max_memory_entries entries, and they are the most recently logged ones
\* in logging order.
C36_LogBoundedToMostRecent ==
    /\ Len(elog.log_entries) <= elog.max_memory_entries
    /\ Len(elog.log_entries) <= elog.logged
    /\ Len(elog.log_entries) < elog.max_memory_entries => Len(elog.log_entries) = elog.logged
    /\ \A i \in DOMAIN elog.log_entries :
           elog.log_entries[i].n = elog.logged - Len(elog.log_entries) + i

\* A step closes workflow cid exactly when it registers a completion event
\* with that correlation id, and a closed workflow stays closed.
ClosedByCompletionEventOnly(cid) ==
    (mon'.active_workflows[cid].status = "completed")
        <=> \/ mon.active_workflows[cid].status = "completed"
            \/ \E message_type \in MonitoredTypes :
                   /\ _is_completion_event(message_type)
                   /\ mon' = register_event(mon, message_type, cid)

\* The step raises no stalled_workflow alert for a workflow that is
\* completed.
NoAlertForCompleted ==
    \A i \in DOMAIN mon'.alerts :
        i > Len(mon.alerts) =>
            mon.active_workflows[mon'.alerts[i].correlation_id].status # "completed"

\* C37: a workflow becomes completed exactly when an event of a completion
\* type is registered with its correlation id; once completed it stays
\* completed under later events and commands, is not among the active
\* workflows and triggers no stall alert.
C37_CompletedIsFinalAndSilent ==
    [][/\ \A cid \in Cids : ClosedByCompletionEventOnly(cid)
       /\ \A cid \in Cids :
              mon'.active_workflows[cid].status = "completed" =>
                  get_active_workflows(mon'.active_workflows, <<cid>>) = <<>>
       /\ NoAlertForCompleted]_vars

\* C38: change_status(S) on a task whose status is S raises nothing,
\* appends no event and leaves every field of the task as it was.
C38_SelfTransitionIsNoOp ==
    (last.op = "change_status" /\ last.arg = last.pre.status) =>
        (~last.raised /\ task = last.pre)

\* A sequence without a repeated element.
NoDuplicates(seq) ==
    \A i, j \in DOMAIN seq : i # j => seq[i] # seq[j]

\* C39: artifact_ids, requirements_ids and tags never hold an element
\* twice, and an operation handed only ids that are already present leaves
\* artifact_ids as it was.
C39_IdSequencesHaveNoDuplicates ==
    /\ NoDuplicates(task.artifact_ids)
    /\ task.impl = EntityTask =>
           (NoDuplicates(task.requirements_ids) /\ NoDuplicates(task.tags))
    /\ (/\ last.op \in {"ready_for_review", "complete"}
        /\ ~last.raised
        /\ \A i \in DOMAIN last.arg : \E j \in DOMAIN last.pre.artifact_ids :
               last.pre.artifact_ids[j] = last.arg[i])
           => task.artifact_ids = last.pre.artifact_ids

\* Where the loop thread of the i-th start() is.
LoopPc(i) == IF i \in DOMAIN thr.loops THEN thr.loops[i].pc ELSE "none"

====
